---- MODULE Spec2Model ----
(***************************************************************************)
(* A model of the stanley Atari 2600 emulator core: the bus (address       *)
(* decode by masks), the RIOT interval timer, the TIA beam counter with    *)
(* its WSYNC/VSYNC latches, and the system loop that ticks them.           *)
(*                                                                         *)
(* Numbers are written in decimal; the hexadecimal value of the source is  *)
(* given in the comment beside each.                                       *)
(***************************************************************************)
EXTENDS Integers, Naturals, Sequences, FiniteSets, TLC

VARIABLES
    clocks,     \* System.clocks
    riot,       \* System.riot   (struct Riot)
    tia,        \* System.tia    (struct Tia)
    memory,     \* System.memory : [u8; 128]
    program,    \* System.program: [u8; 4096]
    fatal,      \* "none", or the message of the panic that ended the process
    chip,       \* System.chip, the registers and flags of the CPU
    todo,       \* the instructions still to execute, in order
    last,       \* history: the operation just performed and what it returned
    prev,       \* history: the operation before it
    tw,         \* history: the last timer write and the cycles ticked since
    returned,   \* history: sum of the cycle counts instructions returned + WSYNC extras
    held,       \* history: the inputs whose most recent event was InputStart
    runs,       \* the replays of one recording, each with its own System
    steps       \* history: number of operations performed in this run

vars == <<clocks, riot, tia, memory, program, fatal, chip, todo, last, prev, tw,
          returned, held, runs, steps>>

----------------------------------------------------------------------------
(* Program constants                                                        *)

COLOR_CLOCKS_PER_LINE == 228
SCAN_LINES == 262
COLOR_CLOCKS_PER_SYSTEM_CLOCK == 3
COLOR_CLOCKS_PER_FRAME == COLOR_CLOCKS_PER_LINE * SCAN_LINES
MEMORY_SIZE == 128
WIDTH == 160
STRIDE == 4
DRAWING_START_ROW == 40
DRAWING_START_COLUMN == 68
DRAWING_ROWS == 192
DRAWING_COLUMNS == 160
PROGRAM_SIZE == 4096

----------------------------------------------------------------------------
(* Bounds of the model                                                      *)

\* Instructions executed by the system loop in one run.
MaxSteps == 3
\* Bus operations (memory_set / memory_get calls) in one run of the bus.
MaxBusOps == 2
\* Largest of the small values written to a timer register in the RIOT runs.
MaxTimerValue == 3
\* Cycles the RIOT runs are followed past the first underflow of a write,
\* with the prescalers 1 and 8 and with the prescalers 64 and 1024.
MaxAfterUnderflow == 300
ShortAfterUnderflow == 16
\* Cycles a timer write may take to count down in the RIOT runs.
MaxCountdown == 2048
\* Largest cycle count one tick call of the RIOT runs passes for an instruction.
MaxInstructionCycles == 7

----------------------------------------------------------------------------
(* Bit operations on unsigned integers (u8 / u16 in the source)             *)

\* x & y on unsigned integers, bit by bit.
RECURSIVE BitAnd(_, _)
BitAnd(x, y) ==
    IF x = 0 \/ y = 0 THEN 0
    ELSE (x % 2) * (y % 2) + 2 * BitAnd(x \div 2, y \div 2)

\* x | y and x ^ y
BitOr(x, y) == x + y - BitAnd(x, y)
BitXor(x, y) == x + y - 2 * BitAnd(x, y)

\* !index on a u16
Not16(x) == 65535 - x

\* `x as u8`
AsU8(x) == x % 256

----------------------------------------------------------------------------
(* Window events: src/src/renderer.rs                                       *)

\* enum InputType
InputTypes ==
    {"Joystick1Button", "Joystick1Up", "Joystick1Down", "Joystick1Left",
     "Joystick1Right"}

\* enum WindowEvent
InputStart(input) == [kind |-> "InputStart", input |-> input]
InputEnd(input) == [kind |-> "InputEnd", input |-> input]
Quit == [kind |-> "Quit", input |-> "none"]
None == [kind |-> "None", input |-> "none"]
WindowEvents ==
    {Quit, None} \cup {InputStart(i) : i \in InputTypes}
                 \cup {InputEnd(i) : i \in InputTypes}

----------------------------------------------------------------------------
(* RIOT: src/src/system/riot.rs                                            *)

\* Riot::default(): every field zero / false.
RiotDefault ==
    [timer |-> 0, clocks |-> 0, clocks_per_interval |-> 0,
     timint |-> FALSE, swcha |-> 0, timer_reset |-> FALSE]

\* Riot::new(): swcha = 0xFF, the rest default.
RiotNew == [RiotDefault EXCEPT !.swcha = 255]

\* The match of Riot::set: 0x14 => 1, 0x15 => 8, 0x16 => 64, 0x17 => 1024;
\* 0 stands for the todo!() arm.
TimerInterval(index) ==
    CASE index = 20 -> 1
      [] index = 21 -> 8
      [] index = 22 -> 64
      [] index = 23 -> 1024
      [] OTHER -> 0

\* Riot::set reaches todo!("RIOT write not implemented ...").
RiotSetPanics(index) == TimerInterval(index) = 0

\* Riot::set with the reload `clocks = clocks_per_interval` (one cycle late).
RiotSet_LateReload(r, index, value) ==
    LET r1 == [r EXCEPT !.timint = FALSE, !.timer_reset = TRUE, !.timer = value]
    IN  IF RiotSetPanics(index) THEN r1
        ELSE [r1 EXCEPT !.clocks_per_interval = TimerInterval(index),
                        !.clocks = 0]

\* Riot::set that forgets to clear TIMINT.
RiotSet_KeepTimint(r, index, value) ==
    LET r1 == [r EXCEPT !.timer_reset = TRUE, !.timer = value]
    IN  IF RiotSetPanics(index) THEN r1
        ELSE [r1 EXCEPT !.clocks_per_interval = TimerInterval(index),
                        !.clocks = TimerInterval(index) - 1]

\* Riot::set. The three assignments before the match happen even when the
\* match panics.
RiotSet(r, index, value) ==
    LET r1 == [r EXCEPT !.timint = FALSE, !.timer_reset = TRUE, !.timer = value]
    IN  IF RiotSetPanics(index) THEN r1
        ELSE [r1 EXCEPT !.clocks_per_interval = TimerInterval(index),
                        \* The time counts down on the next clock cycle
                        !.clocks = TimerInterval(index) - 1]

\* Riot::get: 0x0284 = 644 (INTIM), 0x0280 = 640 (SWCHA).
RiotGet(r, index) ==
    IF BitAnd(index, 644) = 644
    THEN [riot |-> [r EXCEPT !.timint = FALSE], value |-> r.timer, fatal |-> "none"]
    ELSE IF BitAnd(index, 640) = 640
    THEN [riot |-> r, value |-> r.swcha, fatal |-> "none"]
    ELSE [riot |-> r, value |-> 0, fatal |-> "RIOT read not implemented"]

\* The SWCHA bit of a joystick direction, 0 for any other input.
SwchaBit(input) ==
    CASE input = "Joystick1Up" -> 16
      [] input = "Joystick1Down" -> 32
      [] input = "Joystick1Left" -> 64
      [] input = "Joystick1Right" -> 128
      [] OTHER -> 0

\* Riot::input_event: InputStart clears the bit of its direction
\* (swcha &= !bit), InputEnd sets it (swcha |= bit).
RiotInputEvent(r, event) ==
    CASE event.kind = "InputStart" ->
            [r EXCEPT !.swcha = BitAnd(r.swcha, 255 - SwchaBit(event.input))]
      [] event.kind = "InputEnd" ->
            [r EXCEPT !.swcha = BitOr(r.swcha, SwchaBit(event.input))]
      [] OTHER -> r

\* Riot::tick without the timer_reset guard.
RiotTick_NoResetGuard(r, c) ==
    IF r.clocks_per_interval = 0 THEN r
    ELSE
    LET total_clocks == r.clocks + c
        timer_ticks  == AsU8(total_clocks \div r.clocks_per_interval)
        did_overflow == r.timer < timer_ticks
        value        == (r.timer - timer_ticks) % 256
    IN  IF did_overflow
        THEN LET overflow_ticks == 255 - value
                 t1 == (255 - AsU8(overflow_ticks * r.clocks_per_interval)) % 256
                 t2 == (t1 - AsU8(total_clocks % r.clocks_per_interval)) % 256
             IN  [r EXCEPT !.timer = t2, !.clocks_per_interval = 1, !.timint = TRUE]
        ELSE [r EXCEPT !.timer = value,
                       !.clocks = total_clocks % r.clocks_per_interval]

\* Riot::tick that raises TIMINT when the timer reaches zero, not below it.
RiotTick_TimintAtZero(r, c) ==
    IF r.clocks_per_interval = 0 \/ r.timer_reset THEN r
    ELSE
    LET total_clocks == r.clocks + c
        timer_ticks  == AsU8(total_clocks \div r.clocks_per_interval)
        did_overflow == r.timer <= timer_ticks
        value        == (r.timer - timer_ticks) % 256
    IN  IF did_overflow
        THEN LET overflow_ticks == 255 - value
                 t1 == (255 - AsU8(overflow_ticks * r.clocks_per_interval)) % 256
                 t2 == (t1 - AsU8(total_clocks % r.clocks_per_interval)) % 256
             IN  [r EXCEPT !.timer = t2, !.clocks_per_interval = 1, !.timint = TRUE]
        ELSE [r EXCEPT !.timer = value,
                       !.clocks = total_clocks % r.clocks_per_interval]

\* Riot::tick that drops the cycles left over in the interval.
RiotTick_DropRemainder(r, c) ==
    IF r.clocks_per_interval = 0 \/ r.timer_reset THEN r
    ELSE
    LET total_clocks == r.clocks + c
        timer_ticks  == AsU8(total_clocks \div r.clocks_per_interval)
        did_overflow == r.timer < timer_ticks
        value        == (r.timer - timer_ticks) % 256
    IN  IF did_overflow
        THEN LET overflow_ticks == 255 - value
                 t1 == (255 - AsU8(overflow_ticks * r.clocks_per_interval)) % 256
                 t2 == (t1 - AsU8(total_clocks % r.clocks_per_interval)) % 256
             IN  [r EXCEPT !.timer = t2, !.clocks_per_interval = 1, !.timint = TRUE]
        ELSE [r EXCEPT !.timer = value,
                       !.clocks = 0]

\* Riot::tick. overflowing_sub gives (timer - timer_ticks mod 256, timer <
\* timer_ticks). The two `self.timer -= ...` of the overflow branch never go
\* below zero for the intervals 1, 8, 64, 1024 (the first subtrahend is a
\* multiple of the interval modulo 256, the second is below the interval),
\* so the wrapping form below is what every build computes.
RiotTick(r, c) ==
    IF r.clocks_per_interval = 0 \/ r.timer_reset THEN r
    ELSE
    LET total_clocks == r.clocks + c
        timer_ticks  == AsU8(total_clocks \div r.clocks_per_interval)
        did_overflow == r.timer < timer_ticks
        value        == (r.timer - timer_ticks) % 256
    IN  IF did_overflow
        THEN LET overflow_ticks == 255 - value
                 t1 == (255 - AsU8(overflow_ticks * r.clocks_per_interval)) % 256
                 t2 == (t1 - AsU8(total_clocks % r.clocks_per_interval)) % 256
             IN  [r EXCEPT !.timer = t2, !.clocks_per_interval = 1, !.timint = TRUE]
        ELSE [r EXCEPT !.timer = value,
                       !.clocks = total_clocks % r.clocks_per_interval]

----------------------------------------------------------------------------
(* TIA: src/src/system/tia.rs. The frame buffer is kept as the pixels     *)
(* painted during the run (`painted`, pixel index to the palette entry     *)
(* copied into its four bytes) and the four bytes every other pixel holds  *)
(* (`rest`): the 0xFF bytes of Tia::default() at power-on.                  *)

\* COLOR_MAP[index]: the four bytes of palette entry `index`.
COLOR_MAP(index) == [palette |-> index]

\* The four bytes of a pixel that was never painted, all `byte`.
Filled(byte) == [bytes |-> byte]
Unpainted == Filled(255)

\* Tia::default()
TiaDefault ==
    [vsync |-> FALSE, vblank |-> FALSE, wsync |-> FALSE, set_resp0 |-> FALSE,
     colupf |-> 0, colubk |-> 0, colup0 |-> 0, colup1 |-> 0,
     pf_reflected |-> FALSE, pf0 |-> 0, pf1 |-> 0, pf2 |-> 0,
     color_clocks |-> 0, joystick1_trigger_pressed |-> FALSE,
     nusize0 |-> "OneCopy", resp0 |-> 0, grp0 |-> 0,
     buffer |-> [rest |-> Unpainted, painted |-> [p \in {} |-> 0]]]

\* Tia::set panics: set_player1_nusize is unimplemented!() for a value other
\* than 0x00 and 0x07, and an index above 0x3F is unreachable!().
TiaSetPanics(index, value) ==
    \/ index = 4 /\ value \notin {0, 7}
    \/ index > 63

\* Tia::set that places the player at the write of RESP0.
TiaSet_ImmediateResp0(t, index, value) ==
    CASE index = 0  -> [t EXCEPT !.vsync = BitAnd(value, 2) # 0]
      [] index = 1  -> [t EXCEPT !.vblank = BitAnd(value, 2) # 0]
      [] index = 2  -> [t EXCEPT !.wsync = TRUE]
      [] index = 4  -> IF value = 0 THEN [t EXCEPT !.nusize0 = "OneCopy"]
                       ELSE IF value = 7 THEN [t EXCEPT !.nusize0 = "Quad"]
                       ELSE t
      [] index = 6  -> [t EXCEPT !.colup0 = value]
      [] index = 7  -> [t EXCEPT !.colup1 = value]
      [] index = 8  -> [t EXCEPT !.colupf = value]
      [] index = 9  -> [t EXCEPT !.colubk = value]
      [] index = 10 -> [t EXCEPT !.pf_reflected = (BitAnd(value, 1) = 1)]
      [] index = 13 -> [t EXCEPT !.pf0 = BitAnd(value, 240)]
      [] index = 14 -> [t EXCEPT !.pf1 = value]
      [] index = 15 -> [t EXCEPT !.pf2 = value]
      [] index = 16 -> [t EXCEPT !.resp0 = (t.color_clocks % COLOR_CLOCKS_PER_LINE) + 6]
      [] index = 27 -> [t EXCEPT !.grp0 = value]
      [] OTHER -> t

\* Tia::set
TiaSet(t, index, value) ==
    CASE index = 0  -> [t EXCEPT !.vsync = BitAnd(value, 2) # 0]
      [] index = 1  -> [t EXCEPT !.vblank = BitAnd(value, 2) # 0]
      [] index = 2  -> [t EXCEPT !.wsync = TRUE]
      [] index = 4  -> IF value = 0 THEN [t EXCEPT !.nusize0 = "OneCopy"]
                       ELSE IF value = 7 THEN [t EXCEPT !.nusize0 = "Quad"]
                       ELSE t
      [] index = 6  -> [t EXCEPT !.colup0 = value]
      [] index = 7  -> [t EXCEPT !.colup1 = value]
      [] index = 8  -> [t EXCEPT !.colupf = value]
      [] index = 9  -> [t EXCEPT !.colubk = value]
      [] index = 10 -> [t EXCEPT !.pf_reflected = (BitAnd(value, 1) = 1)]
      [] index = 13 -> [t EXCEPT !.pf0 = BitAnd(value, 240)]
      [] index = 14 -> [t EXCEPT !.pf1 = value]
      [] index = 15 -> [t EXCEPT !.pf2 = value]
      [] index = 16 -> [t EXCEPT !.set_resp0 = TRUE]
      [] index = 27 -> [t EXCEPT !.grp0 = value]
      [] OTHER -> t

\* Tia::get: INPT4 = 0xC; 0xE is read to waste time; anything else is
\* unimplemented!().
TiaGet(t, index) ==
    IF BitAnd(index, 15) = 12
    THEN [value |-> IF ~t.joystick1_trigger_pressed THEN 128 ELSE 0, fatal |-> "none"]
    ELSE IF BitAnd(index, 15) = 14
    THEN [value |-> 0, fatal |-> "none"]
    ELSE [value |-> 0, fatal |-> "Tia get not implemented"]

\* The pixel at (line, column) of a frame buffer.
PixelAt(buffer, line, column) ==
    IF line * WIDTH + column \in DOMAIN buffer.painted
    THEN buffer.painted[line * WIDTH + column]
    ELSE buffer.rest

\* The number of values of usize stands at 2^30 in the model: the source
\* compares a wrapped difference only with numbers below 2^16.
UsizeRange == 2 ^ 30

\* x.wrapping_sub(y) on usize, for x and y below 2^16.
WrappingSub(x, y) == IF x >= y THEN x - y ELSE x - y + UsizeRange

\* u8::reverse_bits and, for a value below 2^20, u64::reverse_bits() >> 44:
\* the low `width` bits of x in reverse order.
RECURSIVE ReverseBits(_, _)
ReverseBits(x, width) ==
    IF width = 0 THEN 0
    ELSE (x % 2) * 2 ^ (width - 1) + ReverseBits(x \div 2, width - 1)

\* get_playfield that never reflects the right half.
get_playfield_NeverReflects(t) ==
    LET playfield == ReverseBits(t.pf0, 8) * 65536 + t.pf1 * 256 + ReverseBits(t.pf2, 8)
    IN  [high |-> playfield, low |-> playfield]

\* get_playfield that takes PF2 as it was written.
get_playfield_Pf2AsWritten(t) ==
    LET playfield == ReverseBits(t.pf0, 8) * 65536 + t.pf1 * 256 + t.pf2
    IN  [high |-> playfield,
         low |-> IF t.pf_reflected THEN ReverseBits(playfield, 20) ELSE playfield]

\* Tia::get_playfield. The 40-bit word is high * 2^20 + low: high is the
\* 20-bit playfield, low the playfield again or its reflection.
get_playfield(t) ==
    LET playfield == ReverseBits(t.pf0, 8) * 65536 + t.pf1 * 256 + ReverseBits(t.pf2, 8)
    IN  [high |-> playfield,
         low |-> IF t.pf_reflected THEN ReverseBits(playfield, 20) ELSE playfield]

\* pf & (1 << bit) != 0
PlayfieldBit(pf, bit) ==
    IF bit >= 20 THEN BitAnd(pf.high, 2 ^ (bit - 20)) # 0
    ELSE BitAnd(pf.low, 2 ^ bit) # 0

\* Tia::column and Tia::row
TiaColumn(color_clocks) ==
    WrappingSub(color_clocks % COLOR_CLOCKS_PER_LINE, DRAWING_START_COLUMN)
TiaRow(color_clocks) ==
    WrappingSub(color_clocks \div COLOR_CLOCKS_PER_LINE, DRAWING_START_ROW)

\* The beam position i paints a pixel.
Draws(i) == TiaColumn(i) < DRAWING_COLUMNS /\ TiaRow(i) < DRAWING_ROWS

\* A GRP0 draw that ignores NUSIZ0.
SpriteCovers_AnyNusize(t, column) ==
    /\ column >= WrappingSub(t.resp0, DRAWING_START_COLUMN)
    /\ column < WrappingSub(t.resp0, DRAWING_START_COLUMN) + 8 * 4
    /\ BitAnd(t.grp0,
              2 ^ (7 - ((column - WrappingSub(t.resp0, DRAWING_START_COLUMN)) \div 4))) # 0

\* The GRP0 draw covers the column: NUSIZ0 is Quad, the column is one of the
\* 32 from resp0 - 68 on, and its bit of GRP0 is set.
SpriteCovers(t, column) ==
    /\ t.nusize0 = "Quad"
    /\ column >= WrappingSub(t.resp0, DRAWING_START_COLUMN)
    /\ column < WrappingSub(t.resp0, DRAWING_START_COLUMN) + 8 * 4
    /\ BitAnd(t.grp0,
              2 ^ (7 - ((column - WrappingSub(t.resp0, DRAWING_START_COLUMN)) \div 4))) # 0

\* The palette entry Tia::tick copies into the pixel of a column: the
\* playfield draw, then the GRP0 draw over it.
PixelColor(t, pf, column) ==
    IF SpriteCovers(t, column) THEN COLOR_MAP(t.colup0)
    ELSE IF PlayfieldBit(pf, (40 - column \div STRIDE) - 1) THEN COLOR_MAP(t.colupf)
    ELSE COLOR_MAP(t.colubk)

\* The beam positions of Tia::tick(c), both ends included, that paint.
Painted(t, c) ==
    {i \in t.color_clocks..(t.color_clocks + c * COLOR_CLOCKS_PER_SYSTEM_CLOCK) : Draws(i)}

\* The pixel index of beam position i.
PixelOf(i) == TiaRow(i) * WIDTH + TiaColumn(i)

\* The frame buffer after the loop of Tia::tick(c). The column of pixel
\* index p is p % WIDTH.
Paint(t, c) ==
    LET pixels == {PixelOf(i) : i \in Painted(t, c)}
        pf == get_playfield(t)
    IN  [t.buffer EXCEPT !.painted =
            [p \in DOMAIN t.buffer.painted \cup pixels |->
                IF p \in pixels THEN PixelColor(t, pf, p % WIDTH)
                ELSE t.buffer.painted[p]]]

\* Tia::tick that lets the beam counter run past the end of the frame.
TiaTick_NoWrap(t, c) ==
    [t EXCEPT !.buffer = Paint(t, c),
              !.color_clocks = t.color_clocks + c * COLOR_CLOCKS_PER_SYSTEM_CLOCK]

\* Tia::tick
TiaTick(t, c) ==
    [t EXCEPT !.buffer = Paint(t, c),
              !.color_clocks =
                (t.color_clocks + c * COLOR_CLOCKS_PER_SYSTEM_CLOCK) % COLOR_CLOCKS_PER_FRAME]

\* Tia::input_event
TiaInputEvent(t, event) ==
    IF event.input = "Joystick1Button" /\ event.kind = "InputStart"
    THEN [t EXCEPT !.joystick1_trigger_pressed = TRUE]
    ELSE IF event.input = "Joystick1Button" /\ event.kind = "InputEnd"
    THEN [t EXCEPT !.joystick1_trigger_pressed = FALSE]
    ELSE t

\* Tia::wsync_ticks that returns no stall at a line start.
wsync_ticks_NoneAtLineStart(t) ==
    ((COLOR_CLOCKS_PER_LINE - (t.color_clocks % COLOR_CLOCKS_PER_LINE))
        % COLOR_CLOCKS_PER_LINE) \div COLOR_CLOCKS_PER_SYSTEM_CLOCK

\* Tia::wsync_ticks
wsync_ticks(t) ==
    (COLOR_CLOCKS_PER_LINE - (t.color_clocks % COLOR_CLOCKS_PER_LINE))
        \div COLOR_CLOCKS_PER_SYSTEM_CLOCK

\* Tia::beam_position
beam_position(t) == t.color_clocks % COLOR_CLOCKS_PER_LINE

\* Tia::sync that leaves the WSYNC latch set.
TiaSync_KeepsLatch(t) ==
    LET t1 == IF t.set_resp0
              THEN [t EXCEPT !.resp0 = beam_position(t) + 6, !.set_resp0 = FALSE]
              ELSE t
    IN  IF t1.wsync
        THEN [tia |-> IF t1.vsync THEN [t1 EXCEPT !.color_clocks = 228 * 3] ELSE t1,
              value |-> wsync_ticks(t1)]
        ELSE [tia |-> t1, value |-> 0]

\* Tia::sync: the tia after it and the WsyncClocks value it returns.
TiaSync(t) ==
    LET t1 == IF t.set_resp0
              THEN [t EXCEPT !.resp0 = beam_position(t) + 6, !.set_resp0 = FALSE]
              ELSE t
    IN  IF t1.wsync
        THEN LET value == wsync_ticks(t1)
                 t2 == IF t1.vsync
                       THEN [t1 EXCEPT !.color_clocks = 228 * 3]
                       ELSE t1
             IN  [tia |-> [t2 EXCEPT !.wsync = FALSE], value |-> value]
        ELSE [tia |-> t1, value |-> 0]

----------------------------------------------------------------------------
(* The bus: System::memory_set / System::memory_get, src/src/system/mod.rs *)
(* A system value s is the record of the fields of struct System.           *)

Fatal(s, msg) == [s EXCEPT !.fatal = msg]

\* IsTia without the test of bit 7: A & 0x1000 = 0.
IsTia_NoBit7(index) == BitAnd(Not16(index), 4096) = 4096

\* The decode conditions, in the order the code tests them.
\* 0x1000 = 4096, 0x1200 = 4608, 0x0080 = 128, 0x1080 = 4224,
\* 0x0294 = 660, 0x0480 = 1152.
IsProgram(index)   == BitAnd(index, 4096) # 0
IsMemory(index)    == BitAnd(Not16(index), 4608) = 4608 /\ BitAnd(index, 128) # 0
IsTia(index)       == BitAnd(Not16(index), 4224) = 4224
IsRiotWrite(index) == BitAnd(Not16(index), 4096) = 4096 /\ BitAnd(index, 660) # 0
IsRiotRead(index)  == BitAnd(Not16(index), 4096) = 4096 /\ BitAnd(index, 1152) # 0

\* memory_set that stores into the RAM cell below the addressed one.
memory_set_WrongCell(s, index, value) ==
    IF IsProgram(index) THEN Fatal(s, "assignment to program memory")
    ELSE IF IsMemory(index)
    THEN [s EXCEPT !.memory[(BitAnd(index, 127) + 127) % 128] = value]
    ELSE IF IsTia(index)
    THEN IF TiaSetPanics(BitAnd(index, 63), value)
         THEN Fatal(s, "Tia set not implemented")
         ELSE [s EXCEPT !.tia = TiaSet(s.tia, BitAnd(index, 63), value)]
    ELSE IF IsRiotWrite(index)
    THEN LET s1 == [s EXCEPT !.riot = RiotSet(s.riot, BitAnd(index, 31), value)]
         IN  IF RiotSetPanics(BitAnd(index, 31))
             THEN Fatal(s1, "RIOT write not implemented")
             ELSE s1
    ELSE Fatal(s, "set not implemented")

\* memory_set that lets a write through to program memory.
memory_set_WritesProgram(s, index, value) ==
    IF IsProgram(index)
    THEN [s EXCEPT !.program[BitAnd(index, 4095)] = value]
    ELSE IF IsMemory(index)
    THEN [s EXCEPT !.memory[BitAnd(index, 127)] = value]
    ELSE IF IsTia(index)
    THEN IF TiaSetPanics(BitAnd(index, 63), value)
         THEN Fatal(s, "Tia set not implemented")
         ELSE [s EXCEPT !.tia = TiaSet(s.tia, BitAnd(index, 63), value)]
    ELSE IF IsRiotWrite(index)
    THEN LET s1 == [s EXCEPT !.riot = RiotSet(s.riot, BitAnd(index, 31), value)]
         IN  IF RiotSetPanics(BitAnd(index, 31))
             THEN Fatal(s1, "RIOT write not implemented")
             ELSE s1
    ELSE Fatal(s, "set not implemented")

\* System::memory_set
memory_set(s, index, value) ==
    IF IsProgram(index) THEN Fatal(s, "assignment to program memory")
    ELSE IF IsMemory(index)
    THEN [s EXCEPT !.memory[BitAnd(index, 127)] = value]
    ELSE IF IsTia(index)
    THEN IF TiaSetPanics(BitAnd(index, 63), value)
         THEN Fatal(s, "Tia set not implemented")
         ELSE [s EXCEPT !.tia = TiaSet(s.tia, BitAnd(index, 63), value)]
    ELSE IF IsRiotWrite(index)
    THEN LET s1 == [s EXCEPT !.riot = RiotSet(s.riot, BitAnd(index, 31), value)]
         IN  IF RiotSetPanics(BitAnd(index, 31))
             THEN Fatal(s1, "RIOT write not implemented")
             ELSE s1
    ELSE Fatal(s, "set not implemented")

\* System::memory_get: the system after the read and the byte returned.
memory_get(s, index) ==
    IF IsProgram(index)
    THEN [sys |-> s, value |-> s.program[BitAnd(index, 4095)]]
    ELSE IF IsMemory(index)
    THEN [sys |-> s, value |-> s.memory[BitAnd(index, 127)]]
    ELSE IF IsTia(index)
    THEN LET g == TiaGet(s.tia, BitAnd(index, 15))
         IN  [sys |-> IF g.fatal = "none" THEN s ELSE Fatal(s, g.fatal),
              value |-> g.value]
    ELSE IF IsRiotRead(index)
    THEN LET g == RiotGet(s.riot, index)
         IN  [sys |-> IF g.fatal = "none" THEN [s EXCEPT !.riot = g.riot]
                      ELSE Fatal(s, g.fatal),
              value |-> g.value]
    ELSE [sys |-> Fatal(s, "index not implemented"), value |-> 0]

----------------------------------------------------------------------------
(* The system loop                                                          *)

\* System::tick that hands the TIA one cycle whatever the count.
SystemTick_TiaOneCycle(s, c) ==
    [s EXCEPT !.clocks = s.clocks + c,
              !.riot = RiotTick(s.riot, c),
              !.tia = TiaTick(s.tia, 1)]

\* System::tick that forgets to count the cycles.
SystemTick_NoCount(s, c) ==
    [s EXCEPT !.riot = RiotTick(s.riot, c), !.tia = TiaTick(s.tia, c)]

\* System::tick
SystemTick(s, c) ==
    [s EXCEPT !.clocks = s.clocks + c,
              !.riot = RiotTick(s.riot, c),
              !.tia = TiaTick(s.tia, c)]

\* AddressMode::execute, the cycles a mode adds.
ModeClocks(mode) ==
    CASE mode = "ZeroPage" -> 2
      [] mode = "Absolute" -> 3
      [] OTHER -> 0

\* Instruction::execute for Nop, Sta/Stx/Sty and Lda/Ldx/Ldy with the
\* ZeroPage and Absolute modes. The operand address (fetched from the
\* program) and the register stored are fields of inst. Gives the system
\* after the instruction, the cycle count returned and the byte loaded.
InstructionExecute(s, inst) ==
    CASE inst.op = "Nop" -> [sys |-> s, clocks |-> 2, value |-> 0]
      [] inst.op = "Sta" ->
            [sys |-> memory_set(s, inst.addr, inst.value),
             clocks |-> ModeClocks(inst.mode) + 1, value |-> inst.value]
      [] inst.op = "Lda" ->
            LET g == memory_get(s, inst.addr)
            IN  [sys |-> g.sys, clocks |-> ModeClocks(inst.mode) + 1,
                 value |-> g.value]

\* System::execute that leaves the RIOT's timer_reset as it is.
SystemExecute_KeepsReset(s, inst) ==
    LET e == InstructionExecute(s, inst)
    IN  IF e.sys.fatal # "none"
        THEN [sys |-> e.sys, clocks |-> 0, extra |-> 0, value |-> e.value]
        ELSE LET s1 == SystemTick(e.sys, e.clocks)
                 y  == TiaSync(s1.tia)
                 s3 == [s1 EXCEPT !.tia = y.tia]
             IN  [sys |-> SystemTick(s3, y.value), clocks |-> e.clocks,
                  extra |-> y.value, value |-> e.value]

\* System::execute, one iteration of the loop after the fetch: execute,
\* tick(cycles), clear the RIOT's timer_reset, sync the TIA, tick(extra).
\* Gives the system after it and the WSYNC extra. A fatal instruction ends
\* the loop before any tick.
SystemExecute(s, inst) ==
    LET e == InstructionExecute(s, inst)
    IN  IF e.sys.fatal # "none"
        THEN [sys |-> e.sys, clocks |-> 0, extra |-> 0, value |-> e.value]
        ELSE LET s1 == SystemTick(e.sys, e.clocks)
                 s2 == [s1 EXCEPT !.riot.timer_reset = FALSE]
                 y  == TiaSync(s2.tia)
                 s3 == [s2 EXCEPT !.tia = y.tia]
             IN  [sys |-> SystemTick(s3, y.value), clocks |-> e.clocks,
                  extra |-> y.value, value |-> e.value]

----------------------------------------------------------------------------
(* State                                                                    *)

\* The system value held by the variables.
Sys ==
    [clocks |-> clocks, riot |-> riot, tia |-> tia, memory |-> memory,
     program |-> program, fatal |-> fatal, chip |-> chip]

\* The variables take the fields of s.
Commit(s) ==
    /\ clocks' = s.clocks
    /\ riot' = s.riot
    /\ tia' = s.tia
    /\ memory' = s.memory
    /\ program' = s.program
    /\ fatal' = s.fatal
    /\ chip' = s.chip

\* The variables hold the fields of s.
Holds(s) ==
    /\ clocks = s.clocks
    /\ riot = s.riot
    /\ tia = s.tia
    /\ memory = s.memory
    /\ program = s.program
    /\ fatal = s.fatal
    /\ chip = s.chip

\* The cartridge image handed to System::new: a pattern in which no two
\* cells of a page, and no two pages at the same offset, hold the same byte.
Image == [i \in 0..(PROGRAM_SIZE - 1) |-> (i + 7 * (i \div 256)) % 256]

\* Nmos6507::new: the program counter at the start of the cartridge,
\* everything else zero and false. The flags v, d, i and b are fields the
\* instructions use.
ChipNew ==
    [a |-> 0, x |-> 0, y |-> 0, pc |-> 4096, sp |-> 0,
     n |-> FALSE, v |-> FALSE, d |-> FALSE, i |-> FALSE, b |-> FALSE,
     z |-> FALSE, c |-> FALSE]

\* System::new(program)
SystemNew(image) ==
    [clocks |-> 0, riot |-> RiotDefault, tia |-> TiaDefault,
     memory |-> [i \in 0..(MEMORY_SIZE - 1) |-> 0],
     program |-> image, fatal |-> "none", chip |-> ChipNew]

NoOp == [kind |-> "none", addr |-> 0, value |-> 0, cycles |-> 0, extra |-> 0]
Op(kind, addr, value, cycles, extra) ==
    [kind |-> kind, addr |-> addr, value |-> value, cycles |-> cycles, extra |-> extra]

NoWrite == [n |-> 0, p |-> 0, k |-> 0]

\* The state right after construction.
PowerOn ==
    /\ Holds(SystemNew(Image))
    /\ todo = << >>
    /\ last = NoOp
    /\ prev = NoOp
    /\ tw = NoWrite
    /\ returned = 0
    /\ held = {}
    /\ runs = << >>
    /\ steps = 0

----------------------------------------------------------------------------
(* Specification Spec: the system loop                                      *)

\* CPU cycles in a scan line and in a frame.
LineCycles == COLOR_CLOCKS_PER_LINE \div COLOR_CLOCKS_PER_SYSTEM_CLOCK
FrameCycles == COLOR_CLOCKS_PER_FRAME \div COLOR_CLOCKS_PER_SYSTEM_CLOCK

\* The runs start at power-on, or after instructions that store nothing
\* (NOPs and jumps) have brought the beam into the last scan line of the
\* first frame: every eighth cycle of the line, and the cycle from which a
\* three-cycle store ends where the line does.
StartClocks ==
    {0} \cup {c \in (FrameCycles - LineCycles)..(FrameCycles - 1) : c % 8 = 0}
    \cup {FrameCycles - 3}

\* The system after c cycles of such instructions have run from power-on:
\* the RIOT, not yet written, has not counted; the beam has moved 3 * c
\* and, once past the visible lines, has painted every pixel with the
\* background COLUBK = 0.
AfterNops(c) ==
    [SystemNew(Image) EXCEPT
        !.clocks = c,
        !.tia.color_clocks = (c * COLOR_CLOCKS_PER_SYSTEM_CLOCK) % COLOR_CLOCKS_PER_FRAME,
        !.tia.buffer.rest = IF c = 0 THEN Unpainted ELSE COLOR_MAP(0)]

Init ==
    \E c \in StartClocks :
        /\ Holds(AfterNops(c))
        /\ todo = << >>
        /\ last = NoOp
        /\ prev = NoOp
        /\ tw = NoWrite
        /\ returned = c
        /\ held = {}
        /\ runs = << >>
        /\ steps = 0

\* Register addresses the loop's instructions use.
\* VSYNC 0x00, WSYNC 0x02, a RAM cell 0x80, INTIM 0x0284,
\* TIM1T/TIM8T/TIM64T/T1024T 0x0294..0x0297, a program address 0xF000.
VSYNC == 0
WSYNC == 2
RAMCELL == 128
INTIM == 644
TIM1T == 660
TIM8T == 661
TIM64T == 662
T1024T == 663
ROMADDR == 61440
TimerRegs == {TIM1T, TIM8T, TIM64T, T1024T}

\* The stores (mode, address, register value) and loads (mode, address)
\* the instruction stream is drawn from.
LoopStores ==
    {<<"ZeroPage", VSYNC, 0>>, <<"ZeroPage", VSYNC, 2>>, <<"ZeroPage", WSYNC, 0>>,
     <<"ZeroPage", RAMCELL, 5>>, <<"Absolute", ROMADDR, 1>>}
    \cup {<<"Absolute", a, 5>> : a \in TimerRegs}
LoopLoads == {<<"Absolute", INTIM>>}

\* One iteration of the loop with instruction inst.
Execute(inst) ==
    /\ fatal = "none"
    /\ steps < MaxSteps
    /\ \E r \in {SystemExecute(Sys, inst)} :
           /\ Commit(r.sys)
           /\ last' = Op(inst.op, inst.addr, r.value, r.clocks, r.extra)
           /\ returned' = returned + r.clocks + r.extra
    /\ prev' = last
    /\ steps' = steps + 1
    /\ UNCHANGED <<todo, tw, held, runs>>

ExecuteNop ==
    Execute([op |-> "Nop", mode |-> "Implied", addr |-> 0, value |-> 0])

ExecuteSta ==
    \E st \in LoopStores :
        Execute([op |-> "Sta", mode |-> st[1], addr |-> st[2], value |-> st[3]])

ExecuteLda ==
    \E ld \in LoopLoads :
        Execute([op |-> "Lda", mode |-> ld[1], addr |-> ld[2], value |-> 0])

Next == ExecuteNop \/ ExecuteSta \/ ExecuteLda

Spec == Init /\ [][Next]_vars

----------------------------------------------------------------------------
(* Specification SpecRiot: a Riot on its own, driven through its interface  *)
(* as the tests of riot.rs drive it: new, set, the owner clearing           *)
(* timer_reset, tick, get. No System is built: the variables of the system  *)
(* around the Riot hold nothing.                                            *)

RiotAlone ==
    /\ riot = RiotNew
    /\ clocks = 0
    /\ tia = TiaDefault
    /\ memory = << >>
    /\ program = << >>
    /\ fatal = "none"
    /\ chip = ChipNew
    /\ todo = << >>
    /\ last = NoOp
    /\ prev = NoOp
    /\ tw = NoWrite
    /\ returned = 0
    /\ held = {}
    /\ runs = << >>
    /\ steps = 0

\* The values written: small ones, 8 and the largest byte.
TimerValues == (0..MaxTimerValue) \cup {8, 255}

\* Tick sizes: what one instruction returns (up to 7) or one WSYNC stall adds
\* (up to a line).
TickSizes == {1, 2, MaxInstructionCycles, LineCycles}

\* Cycles a write with prescaler p is followed past its first underflow.
AfterUnderflow(p) == IF p <= 8 THEN MaxAfterUnderflow ELSE ShortAfterUnderflow

\* SWCHA, 0x0280
SWCHA == 640

RiotWrite ==
    \E index \in 20..23, value \in TimerValues :
        /\ fatal = "none"
        /\ value * TimerInterval(index) <= MaxCountdown
        /\ riot' = RiotSet(riot, index, value)
        /\ tw' = [n |-> value, p |-> TimerInterval(index), k |-> 0]
        /\ last' = Op("set", index, value, 0, 0)
        /\ UNCHANGED <<clocks, tia, memory, program, fatal, chip, todo, prev, returned,
                     held, runs, steps>>

\* `riot.timer_reset = false`, done by the owner of the Riot.
RiotClearReset ==
    /\ fatal = "none"
    /\ riot.timer_reset
    /\ riot' = [riot EXCEPT !.timer_reset = FALSE]
    /\ last' = Op("clear", 0, 0, 0, 0)
    /\ UNCHANGED <<clocks, tia, memory, program, fatal, chip, todo, prev, tw,
                 returned, held, runs, steps>>

\* tw.k counts the cycles handed to tick while the timer was running.
RiotTickOp ==
    \E c \in TickSizes :
        /\ fatal = "none"
        /\ tw.k + c <= tw.n * tw.p + 1 + AfterUnderflow(tw.p)
        /\ riot' = RiotTick(riot, c)
        /\ tw' = IF riot.timer_reset \/ riot.clocks_per_interval = 0
                 THEN tw ELSE [tw EXCEPT !.k = @ + c]
        /\ last' = Op("tick", 0, 0, 0, 0)
        /\ UNCHANGED <<clocks, tia, memory, program, fatal, chip, todo, prev, returned,
                     held, runs, steps>>

RiotRead ==
    \E index \in {INTIM, SWCHA} :
        \E g \in {RiotGet(riot, index)} :
            /\ fatal = "none"
            /\ riot' = g.riot
            /\ fatal' = g.fatal
            /\ last' = Op("get", index, g.value, 0, 0)
            /\ UNCHANGED <<clocks, tia, memory, program, chip, todo, prev, tw, returned,
                         held, runs, steps>>

NextRiot == RiotWrite \/ RiotClearReset \/ RiotTickOp \/ RiotRead

SpecRiot == RiotAlone /\ [][NextRiot]_vars

----------------------------------------------------------------------------
(* Specification SpecBus: memory_set and memory_get called one after the    *)
(* other on a new system.                                                   *)

\* Addresses of each region, with the bits the decode ignores clear and set.
\* RAM:  0x0080 0x00FF 0x0180 0x0DFF 0x2CFF 0xE580
\* ROM:  0x1000 0xF000 0xFFFF 0x3FFF 0x1080 0x9280
\* TIA:  0x0002 0x0004 0x000C 0x014E 0x040C
\* RIOT: 0x0280 0x0284 0x0294 0x0297, and for reads 0x0282 (SWCHB) 0x0285
RamAddrs == {128, 255, 384, 3583, 11519, 58752}
RomAddrs == {4096, 61440, 65535, 16383, 4224, 37504}
TiaAddrs == {2, 4, 12, 334, 1036}
RiotAddrs == {640, 644, 660, 663}
BusAddrs == RamAddrs \cup RomAddrs \cup TiaAddrs \cup RiotAddrs
RiotReadAddrs == {642, 645}
BusValues == {7, 255}

BusWrite ==
    \E a \in BusAddrs, v \in BusValues :
        /\ fatal = "none"
        /\ steps < MaxBusOps
        /\ \E s \in {memory_set(Sys, a, v)} : Commit(s)
        /\ last' = Op("write", a, v, 0, 0)
        /\ prev' = last
        /\ steps' = steps + 1
        /\ UNCHANGED <<todo, tw, returned, held, runs>>

BusRead ==
    \E a \in BusAddrs \cup RiotReadAddrs :
        /\ fatal = "none"
        /\ steps < MaxBusOps
        /\ \E g \in {memory_get(Sys, a)} :
               /\ Commit(g.sys)
               /\ last' = Op("read", a, g.value, 0, 0)
        /\ prev' = last
        /\ steps' = steps + 1
        /\ UNCHANGED <<todo, tw, returned, held, runs>>

NextBus == BusWrite \/ BusRead

SpecBus == PowerOn /\ [][NextBus]_vars

----------------------------------------------------------------------------
(* The CPU: system/instructions.rs                                          *)
(*                                                                          *)
(* `checks` says whether the build checks integer overflow: with checks     *)
(* (debug) a u8 or u16 `+`, `-` that leaves the type's range panics,        *)
(* without them (release) it wraps. wrapping_add and wrapping_sub wrap in   *)
(* both. The steps of an instruction are operators that take the outcome of *)
(* the step before.                                                         *)

\* `x as i8 as u16`: the byte sign-extended to 16 bits.
SignExtend(x) == IF x >= 128 THEN x + 65280 ELSE x

\* t when the process is still running in s, s when it has panicked.
Then(s, t) == IF s.fatal = "none" THEN t ELSE s

\* A `+` or `-` whose exact result is r, in a type of `size` values, panics.
Overflows(checks, r, size) == checks /\ (r < 0 \/ r >= size)

\* The panic of an overflowing `+` or `-`.
Overflow(s, r) ==
    Fatal(s, IF r < 0 THEN "attempt to subtract with overflow"
             ELSE "attempt to add with overflow")

\* chip.pc and chip.sp assigned the result r of a u16 / u8 `+` or `-`.
SetPc(s, checks, r) ==
    IF Overflows(checks, r, 65536) THEN Overflow(s, r)
    ELSE [s EXCEPT !.chip.pc = r % 65536]
SetSp(s, checks, r) ==
    IF Overflows(checks, r, 256) THEN Overflow(s, r)
    ELSE [s EXCEPT !.chip.sp = r % 256]

\* memory_get and memory_set in a sequence of steps: nothing is read or
\* written after a panic.
Get(s, index) ==
    IF s.fatal = "none" THEN memory_get(s, index) ELSE [sys |-> s, value |-> 0]
Put(s, index, value) == Then(s, memory_set(s, index, value))

\* `self.chip.pc += 1` after the byte g was read.
Advance(g, checks) ==
    [sys |-> Then(g.sys, SetPc(g.sys, checks, g.sys.chip.pc + 1)),
     value |-> g.value]

\* System::next_byte
next_byte(s, checks) == Advance(Get(s, s.chip.pc), checks)

\* The AddressValue variants.
AddressNone(s, cycles) ==
    [sys |-> s, clocks |-> cycles, kind |-> "None", addr |-> 0, value |-> 0,
     page_boundary_crossed |-> FALSE, is_offset |-> FALSE]
AddressValue(s, cycles, value) ==
    [sys |-> s, clocks |-> cycles, kind |-> "Value", addr |-> 0, value |-> value,
     page_boundary_crossed |-> FALSE, is_offset |-> FALSE]
AddressAddr(s, cycles, addr) ==
    [sys |-> s, clocks |-> cycles, kind |-> "Address", addr |-> addr, value |-> 0,
     page_boundary_crossed |-> FALSE, is_offset |-> FALSE]
AddressOffsetAddr(s, cycles, addr, crossed) ==
    [sys |-> s, clocks |-> cycles, kind |-> "Address", addr |-> addr, value |-> 0,
     page_boundary_crossed |-> crossed, is_offset |-> TRUE]

\* addr & 0xFF00
Page(addr) == addr - (addr % 256)

\* (high << 8) + low, of two bytes read one after the other.
Join(low, high) == [sys |-> high.sys, addr |-> high.value * 256 + low.value]

\* The modes with two operand bytes.
TwoByteModes == {"Absolute", "AbsoluteX", "AbsoluteY", "AbsoluteI"}

\* The operand of a mode as a number, the first byte b having been fetched.
OperandAfter(b, mode, checks) ==
    IF mode \in TwoByteModes THEN Join(b, next_byte(b.sys, checks))
    ELSE [sys |-> b.sys, addr |-> b.value]

\* The second byte of the 16-bit value at addr, the first having been read:
\* `addr + 1` is a u16 addition, there is no wrap-around.
IndirectHigh(low, addr, checks) ==
    Join(low, IF Overflows(checks, addr + 1, 65536)
              THEN [sys |-> Overflow(low.sys, addr + 1), value |-> 0]
              ELSE Get(low.sys, (addr + 1) % 65536))

\* The 16-bit value in memory at p.addr and p.addr + 1.
Indirect(p, checks) == IndirectHigh(Get(p.sys, p.addr), p.addr, checks)

\* The operand byte plus an index register, a u8 `+`.
ZeroPageIndexed(o, index, checks) ==
    IF Overflows(checks, o.addr + index, 256)
    THEN [sys |-> Overflow(o.sys, o.addr + index), addr |-> 0]
    ELSE [sys |-> o.sys, addr |-> (o.addr + index) % 256]

\* Where the pointer of an indirect mode lies.
PointerAt(o, cpu, mode, checks) ==
    IF mode = "ZeroPageIX" THEN ZeroPageIndexed(o, cpu.x, checks) ELSE o

\* The address an indirect mode gives, the pointer i having been read.
Pointed(i, cpu, mode) ==
    IF mode = "ZeroPageIY"
    THEN AddressOffsetAddr(i.sys, 4, (i.addr + SignExtend(cpu.y)) % 65536,
                           Page(i.addr) # Page((i.addr + SignExtend(cpu.y)) % 65536))
    ELSE AddressAddr(i.sys, 5, i.addr)

\* The address of a zero-page indexed mode.
ZeroPageAddr(z) == AddressAddr(z.sys, 3, z.addr)

\* The AddressValue of a mode, its operand o having been fetched; cpu holds
\* the registers. The index of the absolute indexed modes and of
\* (ZeroPage),Y is cast `as i8`.
Resolve(o, cpu, mode, checks) ==
    CASE mode = "Absolute" -> AddressAddr(o.sys, 3, o.addr)
      [] mode \in {"AbsoluteX", "AbsoluteY"} ->
            AddressOffsetAddr(
                o.sys, 3,
                (o.addr + SignExtend(IF mode = "AbsoluteX" THEN cpu.x ELSE cpu.y)) % 65536,
                Page(o.addr) #
                  Page((o.addr + SignExtend(IF mode = "AbsoluteX" THEN cpu.x ELSE cpu.y))
                          % 65536))
      [] mode \in {"AbsoluteI", "ZeroPageIX", "ZeroPageIY"} ->
            Pointed(Indirect(PointerAt(o, cpu, mode, checks), checks), cpu, mode)
      [] mode = "Immediate" -> AddressValue(o.sys, 1, o.addr)
      [] mode = "Relative" ->
            AddressAddr(o.sys, 0, (o.sys.chip.pc + SignExtend(o.addr)) % 65536)
      [] mode = "ZeroPage" -> AddressAddr(o.sys, 2, o.addr)
      [] OTHER ->
            ZeroPageAddr(ZeroPageIndexed(o, IF mode = "ZeroPageX" THEN cpu.x ELSE cpu.y,
                                         checks))

\* AddressMode::execute: the system after the operand bytes are fetched, the
\* cycles the mode adds and the AddressValue. Accumulator and Implied fetch
\* nothing.
AddressModeExecute(s, mode, checks) ==
    IF mode \in {"Accumulator", "Implied"} THEN AddressNone(s, 0)
    ELSE Resolve(OperandAfter(next_byte(s, checks), mode, checks), s.chip, mode, checks)

\* What an instruction gives back: the system after it and the cycle count.
Done(s, cycles) == [sys |-> s, clocks |-> cycles]

\* A `_ => unreachable!()` arm.
Unreachable(s) == Done(Fatal(s, "unreachable"), 0)

\* The operand of a reading instruction: the immediate byte, or the byte at
\* the operand address.
OperandValue(m) ==
    IF m.kind = "Value" THEN [sys |-> m.sys, value |-> m.value]
    ELSE Get(m.sys, m.addr)

\* The cycles of a reading instruction: one more when a page boundary was
\* crossed.
ReadCycles(m) == m.clocks + 1 + (IF m.page_boundary_crossed THEN 1 ELSE 0)

\* The registers and flags after ADC of value, with the carry out dropped.
AdcChip_NoCarryOut(cpu, value) ==
    LET result == cpu.a + value + (IF cpu.c THEN 1 ELSE 0)
    IN  [cpu EXCEPT
            !.c = FALSE,
            !.v = BitAnd(BitAnd(BitXor(cpu.a, result), BitXor(value, result)), 128) # 0,
            !.n = BitAnd(result, 128) # 0,
            !.z = result % 256 = 0,
            !.a = result % 256]

\* The registers and flags after ADC of value.
AdcChip(cpu, value) ==
    LET result == cpu.a + value + (IF cpu.c THEN 1 ELSE 0)
    IN  [cpu EXCEPT
            !.c = result > 255,
            !.v = BitAnd(BitAnd(BitXor(cpu.a, result), BitXor(value, result)), 128) # 0,
            !.n = BitAnd(result, 128) # 0,
            !.z = result % 256 = 0,
            !.a = result % 256]

\* The registers and flags after SBC of value: wrapping u8 additions of
\* !value and the carry; the carry is bit 7 of the result.
SbcChip(cpu, value) ==
    LET not_value == 255 - value
        result == (cpu.a + not_value + (IF cpu.c THEN 1 ELSE 0)) % 256
    IN  [cpu EXCEPT
            !.c = BitAnd(result, 128) # 0,
            !.v = BitAnd(BitAnd(BitXor(cpu.a, result), BitXor(not_value, result)), 128) # 0,
            !.n = BitAnd(result, 128) # 0,
            !.z = result = 0,
            !.a = result]

\* The flags after BIT of value: all three from a & value.
BitChip(cpu, value) ==
    LET test_value == BitAnd(cpu.a, value)
    IN  [cpu EXCEPT
            !.z = test_value = 0,
            !.n = BitAnd(test_value, 128) # 0,
            !.v = BitAnd(test_value, 64) # 0]

\* The registers and flags after AND, ORA, EOR of value.
LogicChip(cpu, op, value) ==
    LET a == CASE op = "And" -> BitAnd(cpu.a, value)
               [] op = "Ora" -> BitOr(cpu.a, value)
               [] OTHER -> BitXor(cpu.a, value)
    IN  [cpu EXCEPT !.a = a, !.z = a = 0, !.n = BitAnd(a, 128) # 0]

\* The flags after CMP, CPX, CPY of value.
CompareChip(cpu, op, value) ==
    LET base == CASE op = "Cmp" -> cpu.a
                  [] op = "Cpx" -> cpu.x
                  [] OTHER -> cpu.y
        result == (base - value + 256) % 256
    IN  [cpu EXCEPT !.z = result = 0, !.n = BitAnd(result, 128) # 0,
                    !.c = base > value]

\* LDA, LDX, LDY that leave the flags alone.
LoadChip_KeepFlags(cpu, op, value) ==
    CASE op = "Lda" -> [cpu EXCEPT !.a = value]
      [] op = "Ldx" -> [cpu EXCEPT !.x = value]
      [] OTHER -> [cpu EXCEPT !.y = value]

\* The registers and flags after LDA, LDX, LDY of value.
LoadChip(cpu, op, value) ==
    CASE op = "Lda" -> [cpu EXCEPT !.z = value = 0, !.n = BitAnd(value, 128) # 0,
                                   !.a = value]
      [] op = "Ldx" -> [cpu EXCEPT !.z = value = 0, !.n = BitAnd(value, 128) # 0,
                                   !.x = value]
      [] OTHER -> [cpu EXCEPT !.z = value = 0, !.n = BitAnd(value, 128) # 0,
                              !.y = value]

\* The registers and flags a reading instruction leaves.
ReadChip(cpu, op, value) ==
    CASE op = "Adc" -> AdcChip(cpu, value)
      [] op = "Sbc" -> SbcChip(cpu, value)
      [] op \in {"And", "Ora", "Eor"} -> LogicChip(cpu, op, value)
      [] op \in {"Cmp", "Cpx", "Cpy"} -> CompareChip(cpu, op, value)
      [] OTHER -> LoadChip(cpu, op, value)

\* The registers and flags are set from the operand o that was read.
ReadSet(o, op, cycles) ==
    Done(Then(o.sys, [o.sys EXCEPT !.chip = ReadChip(o.sys.chip, op, o.value)]), cycles)

\* Adc, Sbc, And, Ora, Eor, Cmp, Cpx, Cpy, Lda, Ldx, Ldy, the mode having
\* given m: read the operand, then set registers and flags.
Read(m, op) ==
    IF m.kind = "None" THEN Unreachable(m.sys)
    ELSE ReadSet(OperandValue(m), op, ReadCycles(m))

\* The flags of BIT are set from the byte g that was read.
BitSetFlags(g, cycles) ==
    Done(Then(g.sys, [g.sys EXCEPT !.chip = BitChip(g.sys.chip, g.value)]), cycles)

\* Bit: the operand is always at an address.
Bit(m) ==
    IF m.kind # "Address" THEN Unreachable(m.sys)
    ELSE BitSetFlags(Get(m.sys, m.addr), m.clocks + 1)

\* The flag test of a branch.
ShouldBranch(cpu, op) ==
    CASE op = "Bpl" -> ~cpu.n
      [] op = "Bmi" -> cpu.n
      [] op = "Bvc" -> ~cpu.v
      [] op = "Bvs" -> cpu.v
      [] op = "Bcc" -> ~cpu.c
      [] op = "Bcs" -> cpu.c
      [] op = "Bne" -> ~cpu.z
      [] OTHER -> cpu.z

\* The branches without the extra cycle of a page crossing.
Branch_NoPageCycle(m, op) ==
    IF m.kind # "Address" THEN Unreachable(m.sys)
    ELSE IF ShouldBranch(m.sys.chip, op)
    THEN Done(Then(m.sys, SetPc(m.sys, FALSE, m.addr)), m.clocks + 2 + 1)
    ELSE Done(m.sys, m.clocks + 2)

\* Bpl, Bmi, Bvc, Bvs, Bcc, Bcs, Bne, Beq
Branch(m, op) ==
    IF m.kind # "Address" THEN Unreachable(m.sys)
    ELSE IF ShouldBranch(m.sys.chip, op)
    THEN Done(Then(m.sys, SetPc(m.sys, FALSE, m.addr)),
              m.clocks + 2 + 1
                + (IF Page(m.sys.chip.pc) # Page(m.addr) THEN 1 ELSE 0))
    ELSE Done(m.sys, m.clocks + 2)

\* Jmp
Jmp(m) ==
    IF m.kind # "Address" THEN Unreachable(m.sys)
    ELSE Done(Then(m.sys, SetPc(m.sys, FALSE, m.addr)), m.clocks)

\* Brk and Rti that return their seven cycles.
BrkRti_Returns(s) == Done(s, 7)

\* Brk, Rti: unimplemented!()
BrkRti(s) == Done(Fatal(s, "BRK and RTI not implemented"), 0)

\* `system.chip.sp -= 1` and `system.chip.sp += 1`
SpDown(s, checks) == Then(s, SetSp(s, checks, s.chip.sp - 1))
SpUp(s, checks) == Then(s, SetSp(s, checks, s.chip.sp + 1))

\* memory_set(sp as u16, value); sp -= 1
PushByte(s, value, checks) == SpDown(Put(s, s.chip.sp, value), checks)

\* memory_get(sp as u16)
AtSp(s) == Get(s, s.chip.sp)

\* sp += 1; memory_get(sp as u16)
PullByte(s, checks) == AtSp(SpUp(s, checks))

\* The end of Jsr: `system.chip.pc = addr`
JsrJump(s, addr, cycles) == Done(Then(s, SetPc(s, FALSE, addr)), cycles)

\* Jsr after the high byte was pushed: `ret_low - 1`, a u8 subtraction, is
\* pushed.
JsrLow(s, ret_low, addr, cycles, checks) ==
    JsrJump(IF Overflows(checks, ret_low - 1, 256)
            THEN Then(s, Overflow(s, ret_low - 1))
            ELSE PushByte(s, (ret_low + 255) % 256, checks),
            addr, cycles)

\* Jsr: pushes the high byte of the program counter, then the low byte
\* minus one.
Jsr(m, checks) ==
    IF m.kind # "Address" THEN Unreachable(m.sys)
    ELSE JsrLow(PushByte(m.sys, m.sys.chip.pc \div 256, checks),
                m.sys.chip.pc % 256, m.addr, m.clocks + 3, checks)

\* The end of Rts: `pc = (high << 8) + low + 1`, u16 additions.
RtsJump(low, high, checks) ==
    Done(Then(high.sys, SetPc(high.sys, checks, high.value * 256 + low.value + 1)), 6)

\* Rts after the low byte was pulled.
RtsHigh(low, checks) == RtsJump(low, PullByte(low.sys, checks), checks)

\* Rts
Rts(s, checks) == RtsHigh(PullByte(s, checks), checks)

\* System::status: the flags as a byte, N V 1 B D I Z C.
status(cpu) ==
    (IF cpu.n THEN 128 ELSE 0) + (IF cpu.v THEN 64 ELSE 0) + 32
    + (IF cpu.b THEN 16 ELSE 0) + (IF cpu.d THEN 8 ELSE 0)
    + (IF cpu.i THEN 4 ELSE 0) + (IF cpu.z THEN 2 ELSE 0)
    + (IF cpu.c THEN 1 ELSE 0)

\* System::status_set: every flag from its bit of the byte.
status_set(cpu, register) ==
    [cpu EXCEPT !.n = BitAnd(register, 128) # 0, !.v = BitAnd(register, 64) # 0,
                !.b = BitAnd(register, 16) # 0, !.d = BitAnd(register, 8) # 0,
                !.i = BitAnd(register, 4) # 0, !.z = BitAnd(register, 2) # 0,
                !.c = BitAnd(register, 1) # 0]

\* Pha, Php
Push(s, op, checks) ==
    Done(PushByte(s, IF op = "Pha" THEN s.chip.a ELSE status(s.chip), checks), 3)

\* `system.chip.a = ...`: the flags stay as they are.
PlaSet(g) == Done(Then(g.sys, [g.sys EXCEPT !.chip.a = g.value]), 4)

\* sp += 1 after the byte g was read.
SpUpAfter(g, checks) == [sys |-> SpUp(g.sys, checks), value |-> g.value]

\* Pla that reads the stack before moving the stack pointer.
Pla_ReadsBelow(s, checks) == PlaSet(SpUpAfter(AtSp(s), checks))

\* Pla
Pla(s, checks) == PlaSet(PullByte(s, checks))

\* `system.status_set(register)`
PlpSet(g) == Done(Then(g.sys, [g.sys EXCEPT !.chip = status_set(g.sys.chip, g.value)]), 4)

\* Plp
Plp(s, checks) == PlpSet(PullByte(s, checks))

\* Sta, Stx, Sty: one more cycle for every indexed mode.
Store(m, op) ==
    IF m.kind # "Address" THEN Unreachable(m.sys)
    ELSE Done(Put(m.sys, m.addr,
                  CASE op = "Sta" -> m.sys.chip.a
                    [] op = "Stx" -> m.sys.chip.x
                    [] OTHER -> m.sys.chip.y),
              m.clocks + 1 + (IF m.is_offset THEN 1 ELSE 0))

\* The value and the carry ASL, LSR, ROL, ROR make of val.
ShiftCalc(op, val, carry) ==
    CASE op = "Asl" -> [value |-> (val * 2) % 256, c |-> BitAnd(val, 128) # 0]
      [] op = "Lsr" -> [value |-> val \div 2, c |-> BitAnd(val, 1) # 0]
      [] op = "Rol" -> [value |-> BitOr((val * 2) % 256, IF carry THEN 1 ELSE 0),
                        c |-> BitAnd(val, 128) # 0]
      [] OTHER -> [value |-> BitOr(val \div 2, IF carry THEN 128 ELSE 0),
                   c |-> BitAnd(val, 1) # 0]

\* The flags a shift sets from its result r.
ShiftFlags(s, r) ==
    Then(s, [s EXCEPT !.chip.c = r.c, !.chip.z = r.value = 0,
                      !.chip.n = BitAnd(r.value, 128) # 0])

\* A shift of the accumulator.
ShiftAccumulator(s, r, cycles) ==
    Done(ShiftFlags([s EXCEPT !.chip.a = r.value], r), cycles)

\* A shift of the byte g read from addr: written back, then the flags.
ShiftMemory(g, r, addr, cycles) ==
    Done(ShiftFlags(Put(g.sys, addr, r.value), r), cycles)

\* The byte g that was read, shifted.
Shifted(g, op, carry) == ShiftCalc(op, g.value, carry)

\* The shift of the byte g read from the address of m.
ShiftRead(g, m, op) ==
    ShiftMemory(g, Shifted(g, op, m.sys.chip.c), m.addr,
                m.clocks + 3 + (IF m.is_offset THEN 1 ELSE 0))

\* Asl, Lsr, Rol, Ror: on the accumulator, or on memory with one more cycle
\* for every indexed mode.
Shift(m, op) ==
    CASE m.kind = "None" ->
            ShiftAccumulator(m.sys, ShiftCalc(op, m.sys.chip.a, m.sys.chip.c),
                             m.clocks + 2)
      [] m.kind = "Address" -> ShiftRead(Get(m.sys, m.addr), m, op)
      [] OTHER -> Unreachable(m.sys)

\* value.wrapping_add(1), value.wrapping_sub(1)
Stepped(value, op) == (value + (IF op = "Inc" THEN 1 ELSE 255)) % 256

\* The flags Inc and Dec set from the result.
IncDecFlags(s, result) ==
    Then(s, [s EXCEPT !.chip.z = result = 0, !.chip.n = BitAnd(result, 128) # 0])

\* Inc and Dec of the byte g read from the address of m: the flags are set
\* before the write.
IncDecRead(g, m, op) ==
    Done(Put(IncDecFlags(g.sys, Stepped(g.value, op)), m.addr, Stepped(g.value, op)),
         m.clocks + 3 + (IF m.is_offset THEN 1 ELSE 0))

\* Inc, Dec
IncDec(m, op) ==
    IF m.kind # "Address" THEN Unreachable(m.sys)
    ELSE IncDecRead(Get(m.sys, m.addr), m, op)

\* The register a transfer reads.
TransferSource(cpu, op) ==
    CASE op \in {"Tax", "Tay"} -> cpu.a
      [] op \in {"Txa", "Txs"} -> cpu.x
      [] op = "Tya" -> cpu.y
      [] OTHER -> cpu.sp

\* `*dest = source`
TransferCopy(cpu, op) ==
    CASE op \in {"Tax", "Tsx"} -> [cpu EXCEPT !.x = TransferSource(cpu, op)]
      [] op \in {"Txa", "Tya"} -> [cpu EXCEPT !.a = TransferSource(cpu, op)]
      [] op = "Tay" -> [cpu EXCEPT !.y = TransferSource(cpu, op)]
      [] OTHER -> [cpu EXCEPT !.sp = TransferSource(cpu, op)]

\* Tax, Txa, Tay, Tya copy and set Z and N from the source; Txs and Tsx
\* only copy.
TransferChip(cpu, op) ==
    IF op \in {"Txs", "Tsx"} THEN TransferCopy(cpu, op)
    ELSE [TransferCopy(cpu, op) EXCEPT
              !.z = TransferSource(cpu, op) = 0,
              !.n = BitAnd(TransferSource(cpu, op), 128) # 0]

\* Tax, Txa, Tay, Tya, Txs, Tsx
Transfer(s, op) == Done([s EXCEPT !.chip = TransferChip(s.chip, op)], 2)

----------------------------------------------------------------------------
(* Specification SpecCpu: Instruction::execute called on a system whose     *)
(* registers, operand bytes and RAM were set beforehand, the way the tests  *)
(* of instructions.rs call it. The program counter is at the operand, the   *)
(* opcode having been fetched. A case is run in both builds.                *)

\* An instruction.
I(op, mode) == [op |-> op, mode |-> mode]

\* Instruction::try_from(u8), the rows of the table for the opcodes that are
\* fetched in the runs; no other opcode is decoded in them.
Decode(byte) ==
    CASE byte = 0   -> I("Brk", "Implied")
      [] byte = 64  -> I("Rti", "Implied")
      [] byte = 76  -> I("Jmp", "Absolute")
      [] byte = 133 -> I("Sta", "ZeroPage")
      [] byte = 141 -> I("Sta", "Absolute")
      [] byte = 165 -> I("Lda", "ZeroPage")
      [] byte = 173 -> I("Lda", "Absolute")
      [] byte = 234 -> I("Nop", "Implied")
      [] OTHER -> I("Unused", "Implied")

\* The modes Instruction::try_from decodes for an instruction.
Modes(op) ==
    CASE op \in {"Adc", "Sbc", "And", "Ora", "Eor", "Lda", "Cmp"} ->
            {"Immediate", "ZeroPage", "ZeroPageX", "Absolute", "AbsoluteX",
             "AbsoluteY", "ZeroPageIX", "ZeroPageIY"}
      [] op \in {"Cpx", "Cpy"} -> {"Immediate", "ZeroPage", "Absolute"}
      [] op = "Ldx" -> {"Immediate", "ZeroPage", "ZeroPageY", "Absolute", "AbsoluteY"}
      [] op = "Ldy" -> {"Immediate", "ZeroPage", "ZeroPageX", "Absolute", "AbsoluteX"}
      [] op = "Sta" ->
            {"ZeroPage", "ZeroPageX", "Absolute", "AbsoluteX", "AbsoluteY",
             "ZeroPageIX", "ZeroPageIY"}
      [] op \in {"Asl", "Lsr", "Rol", "Ror"} ->
            {"Accumulator", "ZeroPage", "ZeroPageX", "Absolute", "AbsoluteX"}
      [] op \in {"Inc", "Dec"} -> {"ZeroPage", "ZeroPageX", "Absolute", "AbsoluteX"}
      [] op = "Bit" -> {"ZeroPage", "Absolute"}
      [] op \in {"Bpl", "Bmi", "Bvc", "Bvs", "Bcc", "Bcs", "Bne", "Beq"} -> {"Relative"}
      [] op = "Jsr" -> {"Absolute"}
      [] OTHER -> {"Implied"}

\* A case: the registers and flags, the two bytes in the program at pc and
\* pc + 1, the byte m in RAM cell 0 (cell i holds m + i), and the
\* instructions to execute.
Case(cpu, b0, b1, m, insts) ==
    [chip |-> cpu, b0 |-> b0, b1 |-> b1, m |-> m, todo |-> insts]

\* The system a case starts from.
SetUp(t) ==
    [SystemNew([Image EXCEPT ![t.chip.pc % PROGRAM_SIZE] = t.b0,
                             ![(t.chip.pc + 1) % PROGRAM_SIZE] = t.b1])
        EXCEPT !.chip = t.chip,
               !.memory = [i \in 0..(MEMORY_SIZE - 1) |-> (t.m + i) % 256]]

\* The flags all clear or all set.
Flags(cpu, f) ==
    [cpu EXCEPT !.n = f, !.v = f, !.d = f, !.i = f, !.b = f, !.z = f, !.c = f]

\* Registers that differ from each other and from zero.
Registers == [ChipNew EXCEPT !.a = 17, !.x = 34, !.y = 51, !.sp = 255]

\* JSR then RTS. The operand is at 0x1001, at 0x10FD (the return address is
\* 0x10FF), at 0x10FE and 0xF2FE (the low byte of the return address is
\* 0x00); the target is 0x1234 or 0xF080; the stack is at the top of the
\* RAM or at its bottom.
JsrCases ==
    {Case([Registers EXCEPT !.pc = pc, !.sp = sp], target[1], target[2], 0,
          <<I("Jsr", "Absolute"), I("Rts", "Implied")>>) :
        pc \in {4097, 4349, 4350, 62206},
        target \in {<<52, 18>>, <<128, 240>>},
        sp \in {255, 129}}

\* The bytes put in registers and operands: the ends of the range, the
\* sign boundary and bits 6 and 7 alone and together.
Bytes == {0, 1, 64, 127, 128, 192, 255}

\* The stack pointers of the push and pull cases: the two ends of the RAM
\* and a cell inside it.
StackPointers == {128, 195, 255}

\* PHA then PLA for every byte of Bytes, PHP then PLP for every value of the
\* seven flags.
PushPullCases ==
    {Case([Registers EXCEPT !.a = a, !.sp = sp], 0, 0, 0,
          <<I("Pha", "Implied"), I("Pla", "Implied")>>) :
        a \in Bytes, sp \in StackPointers}
    \cup
    {Case([Registers EXCEPT !.sp = sp, !.n = f[1], !.v = f[2], !.d = f[3],
                            !.i = f[4], !.b = f[5], !.z = f[6], !.c = f[7]],
          0, 0, 0, <<I("Php", "Implied"), I("Plp", "Implied")>>) :
        f \in [1..7 -> BOOLEAN], sp \in StackPointers}

\* ADC and SBC of an immediate operand, for every accumulator and operand of
\* Bytes and both values of the carry.
ArithmeticCases ==
    {Case([Registers EXCEPT !.a = a, !.c = c], m, 0, 0, <<I(op, "Immediate")>>) :
        a \in Bytes, m \in Bytes, c \in BOOLEAN, op \in {"Adc", "Sbc"}}

Branches == {"Bpl", "Bmi", "Bvc", "Bvs", "Bcc", "Bcs", "Bne", "Beq"}

\* Every branch with its flag set and clear, the offset byte at the start,
\* in the middle and in the last two cells of a page, offsets forward and
\* backward.
BranchCases ==
    {Case(Flags([Registers EXCEPT !.pc = pc], f), offset, 0, 0, <<I(op, "Relative")>>) :
        op \in Branches, f \in BOOLEAN, pc \in {4096, 4224, 4350, 4351},
        offset \in {0, 1, 127, 128, 255}}

\* The instructions with an indexed operand: the reads, the store and the
\* read-modify-write instructions, in the indexed modes they decode with.
ReadOps == {"Adc", "Sbc", "And", "Ora", "Eor", "Cmp", "Lda", "Ldx", "Ldy"}
ModifyOps == {"Asl", "Lsr", "Rol", "Ror", "Inc", "Dec"}
IndexedInstructions ==
    UNION {{I(op, mode) :
               mode \in Modes(op) \cap {"AbsoluteX", "AbsoluteY", "ZeroPageIY"}} :
           op \in ReadOps \cup {"Sta"}}
    \cup {I(op, "AbsoluteX") : op \in ModifyOps}

\* The index registers: small, 0x0D (from 0x00FF to INPT4's mirror 0x010C),
\* the largest below the sign bit, the sign bit and the largest byte.
Indexes == {1, 13, 127, 128, 255}

\* The bases of the absolute indexed cases: 0x1080, 0x10FF, 0x1100 in the
\* program, 0x00FF and 0x0100 around the RAM.
AbsoluteBases == {<<128, 16>>, <<255, 16>>, <<0, 17>>, <<255, 0>>, <<0, 1>>}

\* The low byte m of the pointers of the (ZeroPage),Y cases, held in RAM
\* cells 0 and 1 (0x80 and 0x81): 0x1110, 0x00FF, 0x8180.
PointerBytes == {16, 255, 128}

\* Every indexed instruction with every base and index; X and Y both hold
\* the index.
IndexedCases ==
    {Case([Registers EXCEPT !.x = index, !.y = index], base[1], base[2], 0, <<inst>>) :
        inst \in {i \in IndexedInstructions : i.mode # "ZeroPageIY"},
        base \in AbsoluteBases, index \in Indexes}
    \cup
    {Case([Registers EXCEPT !.x = index, !.y = index], 128, 0, m, <<inst>>) :
        inst \in {i \in IndexedInstructions : i.mode = "ZeroPageIY"},
        m \in PointerBytes, index \in Indexes}

Loads == {"Lda", "Ldx", "Ldy"}

\* The loads in the modes without an index or with a zero-page index, with
\* the flags all clear and all set (the absolute indexed and (ZeroPage),Y
\* loads are among the indexed cases). The operands are the bytes of Bytes
\* (Immediate), RAM cells holding 0x00, 0x01 and 0x80 or what follows them
\* (the zero-page modes, the pointer of (ZeroPage,X)), and the bytes at the
\* absolute bases and at INTIM, 0x0284.
LoadCases ==
    UNION {
        {Case(Flags(Registers, f), m, 0, 0, <<I(op, "Immediate")>>) :
            m \in Bytes, f \in BOOLEAN}
        \cup
        {Case(Flags(Registers, f), zp, 0, m, <<I(op, "ZeroPage")>>) :
            zp \in {128, 255}, m \in {0, 1, 128}, f \in BOOLEAN}
        \cup
        {Case(Flags([Registers EXCEPT !.x = index, !.y = index], f), 128, 0, m,
              <<I(op, mode)>>) :
            mode \in Modes(op) \cap {"ZeroPageX", "ZeroPageY", "ZeroPageIX"},
            index \in Indexes, m \in {0, 16, 128}, f \in BOOLEAN}
        \cup
        {Case(Flags(Registers, f), base[1], base[2], 0, <<I(op, "Absolute")>>) :
            base \in AbsoluteBases \cup {<<132, 2>>}, f \in BOOLEAN}
        : op \in Loads}

\* BIT of RAM cell 0 (0x80), addressed in both of its modes, for every
\* accumulator and operand of Bytes, with the flags all clear and all set.
BitCases ==
    {Case(Flags([Registers EXCEPT !.a = a], f), 128, 0, m, <<I("Bit", mode)>>) :
        a \in Bytes, m \in Bytes, f \in BOOLEAN, mode \in Modes("Bit")}

\* STA ZeroPage,X and LDX ZeroPage,Y with operands and indexes whose sums
\* stay below 0x100, reach it and pass it; X and Y both hold the index.
ZeroPageIndexCases ==
    {Case([Registers EXCEPT !.x = index, !.y = index], zp, 0, 0, <<inst>>) :
        inst \in {I("Sta", "ZeroPageX"), I("Ldx", "ZeroPageY")},
        zp \in {0, 128, 255}, index \in {0, 1, 128, 255}}

\* The pushes with the stack pointer at 0x00 and the pulls with it at 0xFF.
\* The JSR is at 0x1000 and goes to 0x1234.
StackEdgeCases ==
    {Case([Registers EXCEPT !.sp = 0], 52, 18, 0, <<inst>>) :
        inst \in {I("Pha", "Implied"), I("Php", "Implied"), I("Jsr", "Absolute")}}
    \cup
    {Case([Registers EXCEPT !.sp = 255], 52, 18, 0, <<I(op, "Implied")>>) :
        op \in {"Pla", "Plp", "Rts"}}

Transfers == {"Tax", "Txa", "Tay", "Tya", "Tsx", "Txs"}

\* Every transfer with every source value of Bytes, the flags all clear and
\* all set; the other registers hold what Registers gives them.
TransferCases ==
    {Case(Flags([Registers EXCEPT !.a = IF op \in {"Tax", "Tay"} THEN v ELSE @,
                                  !.x = IF op \in {"Txa", "Txs"} THEN v ELSE @,
                                  !.y = IF op = "Tya" THEN v ELSE @,
                                  !.sp = IF op = "Tsx" THEN v ELSE @], f),
          0, 0, 0, <<I(op, "Implied")>>) :
        op \in Transfers, v \in Bytes, f \in BOOLEAN}

Compares == {"Cmp", "Cpx", "Cpy"}

\* CMP, CPX and CPY of an immediate operand and of RAM cell 0 (0x80), for
\* every register value and operand of Bytes; A, X and Y all hold the
\* register value.
CompareCases ==
    {Case([Registers EXCEPT !.a = r, !.x = r, !.y = r],
          IF mode = "Immediate" THEN m ELSE 128, 0, m, <<I(op, mode)>>) :
        r \in Bytes, m \in Bytes, op \in Compares,
        mode \in {"Immediate", "ZeroPage"}}

\* The opcodes 0x00 (BRK) and 0x40 (RTI), decoded, with an LDA after them,
\* for every accumulator of Bytes, every stack pointer of StackPointers, a
\* program counter in either mirror of the cartridge, and the flags all
\* clear and all set.
BrkCases ==
    {Case(Flags([Registers EXCEPT !.a = a, !.sp = sp, !.pc = pc], f), 1, 2, 0,
          <<Decode(opcode), I("Lda", "Immediate")>>) :
        opcode \in {0, 64}, a \in Bytes, sp \in StackPointers,
        pc \in {4097, 62206}, f \in BOOLEAN}

Cases ==
    JsrCases \cup PushPullCases \cup ArithmeticCases \cup BranchCases
    \cup IndexedCases \cup LoadCases \cup BitCases \cup BrkCases
    \cup CompareCases \cup TransferCases \cup ZeroPageIndexCases
    \cup StackEdgeCases

NoInst == [op |-> "none", mode |-> "none", clocks |-> 0, before |-> ChipNew]

InitCpu ==
    \E t \in Cases :
        /\ Holds(SetUp(t))
        /\ todo = t.todo
        /\ last = NoInst
        /\ prev = NoInst
        /\ tw = NoWrite
        /\ returned = 0
        /\ held = {}
        /\ runs = << >>
        /\ steps = 0

\* The next instruction is one of ops.
Ready(ops) ==
    /\ fatal = "none"
    /\ todo # << >>
    /\ Head(todo).op \in ops

\* The mode of the next instruction is executed: mode.execute(system, ...).
Mode(checks) == AddressModeExecute(Sys, Head(todo).mode, checks)

\* The instruction ends with outcome r. last keeps the registers it started
\* from and the cycle count it returned.
Finish(r) ==
    /\ Commit(r.sys)
    /\ last' = [op |-> Head(todo).op, mode |-> Head(todo).mode,
                clocks |-> IF r.sys.fatal = "none" THEN r.clocks ELSE 0,
                before |-> chip]
    /\ todo' = Tail(todo)
    /\ prev' = last
    /\ steps' = steps + 1
    /\ UNCHANGED <<tw, returned, held, runs>>

ExecuteJsr ==
    Ready({"Jsr"}) /\ \E checks \in BOOLEAN :
        \E r \in {Jsr(Mode(checks), checks)} : Finish(r)
ExecuteRts ==
    Ready({"Rts"}) /\ \E checks \in BOOLEAN :
        \E r \in {Rts(Sys, checks)} : Finish(r)
ExecutePush ==
    Ready({"Pha", "Php"}) /\ \E checks \in BOOLEAN :
        \E r \in {Push(Sys, Head(todo).op, checks)} : Finish(r)
ExecutePla ==
    Ready({"Pla"}) /\ \E checks \in BOOLEAN :
        \E r \in {Pla(Sys, checks)} : Finish(r)
ExecutePlp ==
    Ready({"Plp"}) /\ \E checks \in BOOLEAN :
        \E r \in {Plp(Sys, checks)} : Finish(r)
ExecuteAdc ==
    Ready({"Adc"}) /\ \E checks \in BOOLEAN :
        \E r \in {Read(Mode(checks), Head(todo).op)} : Finish(r)
ExecuteSbc ==
    Ready({"Sbc"}) /\ \E checks \in BOOLEAN :
        \E r \in {Read(Mode(checks), Head(todo).op)} : Finish(r)
ExecuteLogic ==
    Ready({"And", "Ora", "Eor"}) /\ \E checks \in BOOLEAN :
        \E r \in {Read(Mode(checks), Head(todo).op)} : Finish(r)
ExecuteCompare ==
    Ready({"Cmp", "Cpx", "Cpy"}) /\ \E checks \in BOOLEAN :
        \E r \in {Read(Mode(checks), Head(todo).op)} : Finish(r)
ExecuteLoad ==
    Ready({"Lda", "Ldx", "Ldy"}) /\ \E checks \in BOOLEAN :
        \E r \in {Read(Mode(checks), Head(todo).op)} : Finish(r)
ExecuteBit ==
    Ready({"Bit"}) /\ \E checks \in BOOLEAN :
        \E r \in {Bit(Mode(checks))} : Finish(r)
ExecuteBranch ==
    Ready(Branches) /\ \E checks \in BOOLEAN :
        \E r \in {Branch(Mode(checks), Head(todo).op)} : Finish(r)
ExecuteStore ==
    Ready({"Sta", "Stx", "Sty"}) /\ \E checks \in BOOLEAN :
        \E r \in {Store(Mode(checks), Head(todo).op)} : Finish(r)
ExecuteShift ==
    Ready({"Asl", "Lsr", "Rol", "Ror"}) /\ \E checks \in BOOLEAN :
        \E r \in {Shift(Mode(checks), Head(todo).op)} : Finish(r)
ExecuteIncDec ==
    Ready({"Inc", "Dec"}) /\ \E checks \in BOOLEAN :
        \E r \in {IncDec(Mode(checks), Head(todo).op)} : Finish(r)
ExecuteBrkRti ==
    Ready({"Brk", "Rti"}) /\ \E r \in {BrkRti(Sys)} : Finish(r)
ExecuteTransfer ==
    Ready(Transfers) /\ \E r \in {Transfer(Sys, Head(todo).op)} : Finish(r)

NextCpu ==
    \/ ExecuteJsr \/ ExecuteRts \/ ExecutePush \/ ExecutePla \/ ExecutePlp
    \/ ExecuteAdc \/ ExecuteSbc \/ ExecuteLogic \/ ExecuteCompare \/ ExecuteLoad
    \/ ExecuteBit \/ ExecuteBranch \/ ExecuteStore \/ ExecuteShift \/ ExecuteIncDec
    \/ ExecuteBrkRti \/ ExecuteTransfer

SpecCpu == InitCpu /\ [][NextCpu]_vars

----------------------------------------------------------------------------
(* Properties of the CPU (specification SpecCpu)                            *)

\* C12: executing JSR and then RTS at the target leaves A, X, Y unchanged,
\* restores SP to its value before the JSR and sets PC to the address after
\* the JSR's two operand bytes, for every return address including those
\* whose low byte is 0x00.
JsrRtsReturnsAfterOperand ==
    /\ last.op = "Jsr" => fatal = "none"
    /\ (prev.op = "Jsr" /\ last.op = "Rts") =>
          /\ fatal = "none"
          /\ chip.a = prev.before.a
          /\ chip.x = prev.before.x
          /\ chip.y = prev.before.y
          /\ chip.sp = prev.before.sp
          /\ chip.pc = prev.before.pc + 2

\* C12 fails: without overflow checks a JSR whose return address is 0x1100
\* pushed 0x11 and 0xFF, and the RTS went to 0x1200.
RtsReturnedAPageTooFar ==
    /\ prev.op = "Jsr"
    /\ prev.before.pc + 2 = 4352
    /\ last.op = "Rts"
    /\ fatal = "none"
    /\ chip.sp = prev.before.sp
    /\ chip.pc = 4608

\* C12 fails: with overflow checks the same JSR panicked.
JsrPanicked ==
    /\ last.op = "Jsr"
    /\ last.before.pc + 2 = 4352
    /\ fatal = "attempt to subtract with overflow"

----------------------------------------------------------------------------
(* Specification SpecTia: a Tia on its own, driven through its interface:   *)
(* set, tick, sync after a tick as the loop calls it, input_event. The runs *)
(* start where the beam enters the first visible line, the registers having *)
(* been written and RESP0 strobed during the blank lines before; they are   *)
(* followed over the visible lines that MaxLines counts. tw holds the last  *)
(* change of a register and the cycles ticked since.                        *)

\* Register indices of Tia::set and Tia::get.
NUSIZ0 == 4
COLUP0 == 6
COLUPF == 8
COLUBK == 9
CTRLPF == 10
INPT4 == 12
PF0 == 13
PF1 == 14
PF2 == 15
RESP0 == 16
GRP0 == 27

\* Visible lines a run of the Tia draws.
MaxLines == 1
\* Register writes and input events of a run of the Tia after its start.
MaxTiaOps == 2

\* The tia after the writes of a sequence of <<index, value>> pairs.
RECURSIVE Written(_, _)
Written(t, writes) ==
    IF writes = << >> THEN t
    ELSE Written(TiaSet(t, Head(writes)[1], Head(writes)[2]), Tail(writes))

\* The values written to PF0, PF1, PF2 before the first visible line: only
\* PF0 bit 4, everything, a pattern without symmetry and with bits in the
\* low nibble of PF0.
Playfields == {<<16, 0, 0>>, <<255, 255, 255>>, <<95, 163, 28>>}

\* The player: the values written to NUSIZ0 and GRP0, and the cycle of a
\* blank line at which RESP0 is strobed (0: never).
Players == {<<0, 255, 24>>, <<7, 165, 24>>, <<7, 255, 73>>}

\* Cycles from power-on to the start of the first visible line.
FirstVisible == DRAWING_START_ROW * LineCycles

\* The Tia at the start of the first visible line.
TiaAtFirstLine(pf, reflected, player) ==
    LET t0 == Written(TiaDefault,
                      <<<<PF0, pf[1]>>, <<PF1, pf[2]>>, <<PF2, pf[3]>>,
                        <<CTRLPF, reflected>>, <<COLUPF, 14>>, <<COLUBK, 0>>,
                        <<COLUP0, 68>>, <<NUSIZ0, player[1]>>, <<GRP0, player[2]>>>>)
        t1 == TiaTick(t0, player[3])
        t2 == IF player[3] > 0 THEN TiaSync(TiaSet(t1, RESP0, 0)).tia ELSE t1
    IN  TiaTick(t2, FirstVisible - player[3])

TiaAlone ==
    \E pf \in Playfields, reflected \in {0, 1}, player \in Players :
        /\ tia = TiaAtFirstLine(pf, reflected, player)
        /\ riot = RiotNew
        /\ clocks = 0
        /\ memory = << >>
        /\ program = << >>
        /\ fatal = "none"
        /\ chip = ChipNew
        /\ todo = << >>
        /\ last = NoOp
        /\ prev = NoOp
        /\ tw = NoWrite
        /\ returned = 0
        /\ held = {}
        /\ runs = << >>
        /\ steps = 0

\* The writes made while the line is drawn.
LineWrites ==
    {<<VSYNC, 2>>, <<WSYNC, 0>>, <<RESP0, 0>>, <<CTRLPF, 1>>, <<PF0, 31>>,
     <<PF1, 128>>}

\* Tick sizes: a quarter of a line, a line.
TiaTicks == {LineCycles \div 4, LineCycles}

\* The events the Tia is sent: the trigger and a direction.
TiaEvents ==
    {InputStart("Joystick1Button"), InputEnd("Joystick1Button"),
     InputStart("Joystick1Up")}

\* The inputs held after an event.
Held(h, event) ==
    CASE event.kind = "InputStart" -> h \cup {event.input}
      [] event.kind = "InputEnd" -> h \ {event.input}
      [] OTHER -> h

TiaWrite ==
    \E w \in LineWrites :
        /\ steps < MaxTiaOps
        /\ ~TiaSetPanics(w[1], w[2])
        /\ tia' = TiaSet(tia, w[1], w[2])
        /\ tw' = [n |-> w[2], p |-> w[1], k |-> 0]
        /\ last' = Op("set", w[1], w[2], 0, 0)
        /\ steps' = steps + 1
        /\ UNCHANGED <<clocks, riot, memory, program, fatal, chip, todo, prev, returned,
                     held, runs>>

\* The beam stays within the lines followed; after a frame reset it is not
\* followed further.
TiaTickOp ==
    \E c \in TiaTicks :
        /\ tia.color_clocks >= FirstVisible * COLOR_CLOCKS_PER_SYSTEM_CLOCK
        /\ tia.color_clocks + c * COLOR_CLOCKS_PER_SYSTEM_CLOCK
             <= (DRAWING_START_ROW + MaxLines) * COLOR_CLOCKS_PER_LINE
        /\ tia' = TiaTick(tia, c)
        /\ tw' = [tw EXCEPT !.k = @ + c]
        /\ last' = Op("tick", 0, 0, c, 0)
        /\ UNCHANGED <<clocks, riot, memory, program, fatal, chip, todo, prev, returned,
                     held, runs, steps>>

\* sync() moves the player when RESP0 was strobed and the beam when VSYNC
\* is on: both count as a change of register.
TiaSyncOp ==
    /\ last.kind = "tick"
    /\ \E y \in {TiaSync(tia)} :
          /\ tia' = y.tia
          /\ tw' = IF y.tia.resp0 # tia.resp0 \/ y.tia.color_clocks # tia.color_clocks
                   THEN [n |-> 0, p |-> 0, k |-> 0] ELSE tw
          /\ last' = Op("sync", 0, 0, 0, y.value)
    /\ UNCHANGED <<clocks, riot, memory, program, fatal, chip, todo, prev, returned,
                 held, runs, steps>>

TiaInput ==
    \E event \in TiaEvents :
        /\ steps < MaxTiaOps
        /\ tia' = TiaInputEvent(tia, event)
        /\ held' = Held(held, event)
        /\ UNCHANGED runs
        /\ last' = Op("input", 0, 0, 0, 0)
        /\ steps' = steps + 1
        /\ UNCHANGED <<clocks, riot, memory, program, fatal, chip, todo, prev, tw,
                     returned>>

NextTia == TiaWrite \/ TiaTickOp \/ TiaSyncOp \/ TiaInput

SpecTia == TiaAlone /\ [][NextTia]_vars

----------------------------------------------------------------------------
(* Specification SpecInput: the host sends window events to a new system    *)
(* and the program reads the two input registers over the bus.              *)

\* System::input_event: the event goes to the RIOT and to the TIA.
SystemInputEvent(s, event) ==
    [s EXCEPT !.riot = RiotInputEvent(s.riot, event),
              !.tia = TiaInputEvent(s.tia, event)]

\* The four directions of the joystick.
Directions == InputTypes \ {"Joystick1Button"}

SendEvent ==
    \E event \in WindowEvents :
        /\ fatal = "none"
        /\ Commit(SystemInputEvent(Sys, event))
        /\ held' = Held(held, event)
        /\ UNCHANGED runs
        /\ last' = [kind |-> "input", addr |-> 0, value |-> 0, cycles |-> 0,
                    extra |-> 0, event |-> event, swcha |-> riot.swcha]
        /\ prev' = last
        /\ UNCHANGED <<todo, tw, returned, steps>>

ReadInput ==
    \E index \in {SWCHA, INPT4} :
        /\ fatal = "none"
        /\ \E g \in {memory_get(Sys, index)} :
              /\ Commit(g.sys)
              /\ last' = Op("get", index, g.value, 0, 0)
        /\ prev' = last
        /\ UNCHANGED <<todo, tw, returned, held, runs, steps>>

NextInput == SendEvent \/ ReadInput

SpecInput == PowerOn /\ [][NextInput]_vars

----------------------------------------------------------------------------
(* Specification SpecReplay: test_snapshot of                               *)
(* src/tests/generated_snapshot_tests.rs replays one recording on one       *)
(* cartridge image, twice. The second replay is at most MaxLag harness      *)
(* steps ahead of or behind the first.                                      *)

\* Instruction::execute for an instruction that executes its mode, the mode
\* having given m.
ExecuteWithMode(m, op) ==
    CASE op = "Jmp" -> Jmp(m)
      [] op = "Sta" -> Store(m, op)
      [] OTHER -> Read(m, op)

\* Instruction::execute for the instructions of Decode.
InstructionRun(s, inst, checks) ==
    CASE inst.op = "Nop" -> Done(s, 2)
      [] inst.op \in {"Brk", "Rti", "Unused"} -> BrkRti(s)
      [] OTHER -> ExecuteWithMode(AddressModeExecute(s, inst.mode, checks), inst.op)

\* The steps of System::execute after the instruction returned e: tick its
\* cycles and clear the RIOT's timer_reset; nothing after a fatal one.
Ticked(e) ==
    IF e.sys.fatal # "none" THEN e.sys
    ELSE [SystemTick(e.sys, e.clocks) EXCEPT !.riot.timer_reset = FALSE]

\* Then sync the TIA and tick the cycles of the WSYNC stall.
Synced(s) ==
    IF s.fatal # "none" THEN s
    ELSE LET y == TiaSync(s.tia)
         IN  SystemTick([s EXCEPT !.tia = y.tia], y.value)

\* The instruction at pc is decoded from the byte f that next_byte fetched
\* and executed.
Fetched(f, checks) == Synced(Ticked(InstructionRun(f.sys, Decode(f.value), checks)))

\* One turn of the harness loop that does not apply an event:
\* system.next_byte().try_into(), then system.execute(instruction).
SystemStep(s, checks) == Fetched(next_byte(s, checks), checks)

\* A cartridge image that starts with `bytes`, zero after them.
Rom(bytes) ==
    [i \in 0..(PROGRAM_SIZE - 1) |-> IF i < Len(bytes) THEN bytes[i + 1] ELSE 0]

\* Two kernels that draw one scan line per turn. The first waits for the end
\* of the line (STA WSYNC), then makes the trigger register the background
\* colour (LDA INPT4, STA COLUBK) and jumps back. The second makes the
\* joystick latches the playfield colour and pattern (LDA SWCHA, STA COLUPF,
\* STA PF1).
TriggerKernel == Rom(<<133, 2, 165, 12, 133, 9, 76, 0, 16>>)
JoystickKernel == Rom(<<133, 2, 173, 128, 2, 133, 8, 133, 14, 76, 0, 16>>)
Roms == {TriggerKernel, JoystickKernel}

\* A line of recording.txt: AtariInput { clock_cycle, input }
AtariInput(clock_cycle, input) == [clock_cycle |-> clock_cycle, input |-> input]

\* The CPU cycle at which the beam enters the second visible line.
SecondVisible == (DRAWING_START_ROW + 1) * LineCycles

\* The recordings end with Quit during the third visible line. Their
\* events fall before the first instruction, in the first visible line and
\* in the second.
Recordings ==
    {<<AtariInput(SecondVisible + 1, InputStart("Joystick1Button")),
       AtariInput(SecondVisible + LineCycles + 2, Quit)>>,
     <<AtariInput(0, InputStart("Joystick1Up")),
       AtariInput(SecondVisible - 3, InputEnd("Joystick1Up")),
       AtariInput(SecondVisible + LineCycles, Quit)>>,
     <<AtariInput(0, InputStart("Joystick1Button")),
       AtariInput(SecondVisible - 1, InputEnd("Joystick1Button")),
       AtariInput(SecondVisible - 1, InputEnd("Joystick1Left")),
       AtariInput(SecondVisible + LineCycles + 1, Quit)>>}

\* Harness steps one replay may be ahead of the other.
MaxLag == 1

\* test_snapshot before its loop: `system = System::new(binary)`,
\* `screen_actual = [0; BUFF_SIZE]`, the inputs still to apply. `checks`
\* tells whether the test binary was built with overflow checks, `turns`
\* counts the turns of the loop taken.
Replay(image, recording, checks) ==
    [system |-> SystemNew(image), inputs |-> recording,
     screen_actual |-> [rest |-> Filled(0), painted |-> [p \in {} |-> 0]],
     checks |-> checks, turns |-> 0]

InitReplay ==
    /\ Holds(SystemNew(Image))
    /\ todo = << >>
    /\ last = NoOp
    /\ prev = NoOp
    /\ tw = NoWrite
    /\ returned = 0
    /\ held = {}
    /\ steps = 0
    /\ \E image \in Roms, recording \in Recordings, checks \in BOOLEAN :
          runs = <<Replay(image, recording, checks), Replay(image, recording, checks)>>

\* The replay has a turn to take: an input is left and nothing has panicked.
Running(r) == r.inputs # << >> /\ r.system.fatal = "none"

\* `next_action.clock_cycle <= system.clocks`
Due(r) == Head(r.inputs).clock_cycle <= r.system.clocks

\* A harness that may execute an instruction although the next input is due.
MayExecute_PastDue(r) == TRUE

\* The harness executes an instruction only when the next input is not due:
\* the due branch ends with `break`.
MayExecute(r) == ~Due(r)

\* The replay after the due input was applied: Quit captures the frame
\* buffer, any other event goes to system.input_event.
Applied(r) ==
    LET event == Head(r.inputs).input
    IN  IF event = Quit
        THEN [r EXCEPT !.screen_actual = r.system.tia.buffer,
                       !.inputs = Tail(r.inputs), !.turns = r.turns + 1]
        ELSE [r EXCEPT !.system = SystemInputEvent(r.system, event),
                       !.inputs = Tail(r.inputs), !.turns = r.turns + 1]

\* The replay after an instruction was executed.
Executed(r) ==
    [r EXCEPT !.system = SystemStep(r.system, r.checks), !.turns = r.turns + 1]

\* Replay i may take a turn without getting MaxLag turns ahead of the other.
InStep(i) == runs[i].turns - runs[3 - i].turns < MaxLag

Turn(i, r) ==
    /\ runs' = [runs EXCEPT ![i] = r]
    /\ UNCHANGED <<clocks, riot, tia, memory, program, fatal, chip, todo, last,
                   prev, tw, returned, held, steps>>

ReplayInput ==
    \E i \in 1..2 :
        /\ Running(runs[i]) /\ InStep(i)
        /\ Due(runs[i])
        /\ Turn(i, Applied(runs[i]))

ReplayExecute ==
    \E i \in 1..2 :
        /\ Running(runs[i]) /\ InStep(i)
        /\ MayExecute(runs[i])
        /\ \E r \in {Executed(runs[i])} : Turn(i, r)

NextReplay == ReplayInput \/ ReplayExecute

SpecReplay == InitReplay /\ [][NextReplay]_vars

----------------------------------------------------------------------------
(* Properties of the system loop (specification Spec)                       *)

----------------------------------------------------------------------------
(* Properties of the RIOT timer (specification SpecRiot). tw holds the      *)
(* value n and prescaler p of the last timer write and the cycles k ticked  *)
(* since, however the tick calls split them.                                *)

\* What a read of INTIM returns in this state.
IntimReads == RiotGet(riot, INTIM).value

\* C4: for each prescaler p and value N, after a write of N a read of the
\* timer after exactly N * p ticked cycles returns 0, and after one further
\* cycle the timer reads 0xFF and TIMINT is true, however the cycles are
\* split across tick calls.
TimerReachesZeroThenUnderflows ==
    /\ (tw.p > 0 /\ tw.k = tw.n * tw.p) => IntimReads = 0
    /\ (tw.p > 0 /\ tw.k = tw.n * tw.p + 1)
          => /\ IntimReads = 255
             /\ last.kind = "tick" => riot.timint

\* C4 happens: 1 was written to T1024T and 1025 cycles were ticked.
Timer1024Underflowed ==
    /\ tw.p = 1024
    /\ tw.n = 1
    /\ tw.k = 1025
    /\ last.kind = "tick"
    /\ riot.timer = 255
    /\ riot.timint

\* C5: after a write of N >= 1 with prescaler p, the first decrement comes
\* on the first ticked cycle and each later one p cycles after the previous:
\* after k >= 1 ticked cycles and before underflow INTIM reads
\* N - 1 - floor((k - 1) / p).
TimerCountsFromFirstCycle ==
    (tw.p > 0 /\ tw.n >= 1 /\ tw.k >= 1 /\ tw.k <= tw.n * tw.p)
        => IntimReads = tw.n - 1 - ((tw.k - 1) \div tw.p)

\* C5 happens: 3 was written to TIM64T and INTIM was read as 1 after 65
\* ticked cycles.
Timer64ReadAfterSecondDecrement ==
    /\ tw.p = 64
    /\ tw.n = 3
    /\ tw.k = 65
    /\ last.kind = "get"
    /\ last.addr = INTIM
    /\ last.value = 1

\* A step is a tick call; the timer register wrapped below zero in it (a
\* countdown register only grows by wrapping).
TickStep == last'.kind = "tick"
TimerWrapped == riot'.timer > riot.timer

\* C7: TIMINT is false from power-on, and from a timer write, until the
\* timer underflows; it becomes true exactly on a tick that takes the timer
\* below zero; every timer write and every read of INTIM clears it; once
\* cleared it stays false until a later underflow.
TimintFollowsUnderflow ==
    /\ [](tw.k <= tw.n * tw.p => ~riot.timint)
    /\ [][/\ (TickStep /\ tw.k <= tw.n * tw.p /\ tw'.k > tw.n * tw.p)
                => riot'.timint
          /\ (TickStep /\ TimerWrapped) => riot'.timint
          /\ (TickStep /\ ~TimerWrapped) => riot'.timint = riot.timint
          /\ ~TickStep => (riot'.timint => riot.timint)
          /\ last'.kind = "set" => ~riot'.timint
          /\ (last'.kind = "get" /\ last'.addr = INTIM) => ~riot'.timint]_vars

\* C7 happens: the timer wrapped a second time, 256 cycles after its first
\* underflow, and TIMINT is true again.
TimintSetBySecondUnderflow ==
    /\ tw.p = 1
    /\ tw.k >= tw.n + 257
    /\ last.kind = "tick"
    /\ riot.timer >= 250
    /\ riot.timint

----------------------------------------------------------------------------
(* Properties of the bus (specification SpecBus)                            *)

\* Bit b of address a is set.
BitSet(a, b) == (a \div (2 ^ b)) % 2 = 1

\* A & 0x1200 = 0 and A & 0x0080 # 0: bits 12 and 9 clear, bit 7 set.
RamAddress(a) == ~BitSet(a, 12) /\ ~BitSet(a, 9) /\ BitSet(a, 7)

\* The system but for its RAM is the same after the step as before it.
OnlyRamMayChange ==
    /\ program' = program
    /\ tia' = tia
    /\ riot' = riot
    /\ clocks' = clocks
    /\ fatal' = fatal

\* C9: for every address A with A & 0x1200 = 0 and A & 0x0080 # 0, a bus
\* write of v to A followed by a bus read of any address B with
\* B & 0x1200 = 0, B & 0x0080 # 0 and B & 0x7F = A & 0x7F returns v; the
\* write changes RAM[A & 0x7F] and no other RAM cell, nor ROM, TIA or RIOT.
RamMirrorsRoundTrip ==
    [][/\ (last'.kind = "write" /\ RamAddress(last'.addr))
             => /\ memory' = [memory EXCEPT ![last'.addr % 128] = last'.value]
                /\ OnlyRamMayChange
       /\ (/\ last.kind = "write" /\ RamAddress(last.addr)
           /\ last'.kind = "read" /\ RamAddress(last'.addr)
           /\ last'.addr % 128 = last.addr % 128)
             => /\ last'.value = last.value
                /\ fatal' = "none"]_vars

\* C9 happens: 255 was written through one mirror of a RAM cell and read
\* back through another.
RamReadThroughOtherMirror ==
    /\ prev.kind = "write"
    /\ RamAddress(prev.addr)
    /\ prev.value = 255
    /\ last.kind = "read"
    /\ RamAddress(last.addr)
    /\ last.addr # prev.addr
    /\ last.addr % 128 = prev.addr % 128
    /\ last.value = 255
    /\ memory[last.addr % 128] = 255

\* C10: every address with bit 12 set reads ROM[A & 0x0FFF] whatever its
\* upper three bits; every write to such an address is fatal ("assignment to
\* program memory") and changes nothing; so the ROM holds after any sequence
\* of operations what it held at construction.
RomReadOnly ==
    /\ [](program = Image)
    /\ [][/\ (last'.kind = "read" /\ BitSet(last'.addr, 12))
                => /\ last'.value = Image[last'.addr % 4096]
                   /\ memory' = memory
                   /\ OnlyRamMayChange
          /\ (last'.kind = "write" /\ BitSet(last'.addr, 12))
                => /\ fatal' = "assignment to program memory"
                   /\ memory' = memory
                   /\ program' = program
                   /\ tia' = tia
                   /\ riot' = riot
                   /\ clocks' = clocks]_vars

\* C10 happens: after a read of 0x3FFF returned the last ROM byte, a write
\* to ROM ended the run and the ROM is what it was.
RomWriteAfterRomRead ==
    /\ prev.kind = "read"
    /\ prev.addr = 16383
    /\ prev.value = Image[4095]
    /\ last.kind = "write"
    /\ BitSet(last.addr, 12)
    /\ fatal = "assignment to program memory"
    /\ program = Image

----------------------------------------------------------------------------
(* Properties of the address decode (specification SpecBus)                 *)

\* The regions whose decode condition address a satisfies, on a write
\* (memory_set) or on a read (memory_get).
Conditions(a, write) ==
    {r \in {"ROM", "RAM", "TIA", "RIOT"} :
        \/ r = "ROM" /\ IsProgram(a)
        \/ r = "RAM" /\ IsMemory(a)
        \/ r = "TIA" /\ IsTia(a)
        \/ r = "RIOT" /\ (IF write THEN IsRiotWrite(a) ELSE IsRiotRead(a))}

\* The region an address belongs to by its bits 12, 9 and 7.
RegionOf(a) ==
    IF BitSet(a, 12) THEN "ROM"
    ELSE IF ~BitSet(a, 7) THEN "TIA"
    ELSE IF ~BitSet(a, 9) THEN "RAM"
    ELSE "RIOT"

\* C11 as stated: the address of every bus operation satisfies the decode
\* condition of exactly one of ROM, RAM, TIA and RIOT, so the order of the
\* tests does not matter.
DecodeConditionsExclusive ==
    last.kind # "none"
        => Cardinality(Conditions(last.addr, last.kind = "write")) = 1

\* C11, amended: tested in the order ROM, RAM, TIA, RIOT, every bus
\* operation acts on exactly one region, the one its address bits 12, 9 and
\* 7 select, and its address satisfies that region's condition; the RIOT
\* condition also holds for RAM addresses and for some TIA addresses, which
\* reach RAM and the TIA only because they are tested first.
DecodeRoutesInTestOrder ==
    /\ [](last.kind # "none"
            => RegionOf(last.addr) \in Conditions(last.addr, last.kind = "write"))
    /\ [][LET a == last'.addr
              region == RegionOf(a)
          IN  /\ program' = program
              /\ clocks' = clocks
              /\ region # "RAM" => memory' = memory
              /\ region # "TIA" => tia' = tia
              /\ region # "RIOT" => riot' = riot
              /\ last'.kind = "write" =>
                   /\ region = "RAM" =>
                        memory' = [memory EXCEPT ![a % 128] = last'.value]
                   /\ fatal' = "none" \/ fatal' =
                        CASE region = "ROM" -> "assignment to program memory"
                          [] region = "TIA" -> "Tia set not implemented"
                          [] region = "RIOT" -> "RIOT write not implemented"
                          [] OTHER -> "none"
              /\ last'.kind = "read" =>
                   /\ memory' = memory
                   /\ tia' = tia
                   /\ region = "ROM" => last'.value = program[a % 4096]
                   /\ region = "RAM" => last'.value = memory[a % 128]
                   /\ fatal' = "none" \/ fatal' =
                        CASE region = "TIA" -> "Tia get not implemented"
                          [] region = "RIOT" -> "RIOT read not implemented"
                          [] OTHER -> "none"]_vars

\* C11 happens: a write to 0x0080, which satisfies the RAM and the RIOT
\* condition, reached RAM and left the RIOT alone; before it a write to
\* 0x0004, which satisfies the TIA and the RIOT condition, reached the TIA.
RamAndTiaWritesPassedRiotCondition ==
    /\ prev.kind = "write"
    /\ prev.addr = 4
    /\ Conditions(4, TRUE) = {"TIA", "RIOT"}
    /\ tia.nusize0 = "Quad"
    /\ last.kind = "write"
    /\ last.addr = 128
    /\ Conditions(128, TRUE) = {"RAM", "RIOT"}
    /\ memory[0] = last.value
    /\ riot = RiotDefault
    /\ fatal = "none"

----------------------------------------------------------------------------
(* Properties of the stack instructions (specification SpecCpu)             *)

\* The flags N, V, D, I, Z, C of two register sets are the same.
SameFlags(p, q) ==
    /\ p.n = q.n /\ p.v = q.v /\ p.d = q.d
    /\ p.i = q.i /\ p.z = q.z /\ p.c = q.c

\* C13: for every register and flag value and every SP in 0x80..0xFF, PHA
\* followed by PLA leaves A and SP unchanged, and PHP followed by PLP leaves
\* the flags N, V, D, I, Z, C and SP unchanged; PHP pushes the flags with
\* bit 5 forced to 1. The pushed byte is in the RAM cell SP addressed.
PushPullRoundTrip ==
    /\ (last.op \in {"Pha", "Php"} /\ last.before.sp >= 128) =>
          /\ fatal = "none"
          /\ chip.sp = last.before.sp - 1
          /\ chip.a = last.before.a
          /\ SameFlags(chip, last.before)
          /\ last.op = "Pha" => memory[last.before.sp % 128] = last.before.a
          /\ last.op = "Php" =>
                /\ memory[last.before.sp % 128] = status(last.before)
                /\ BitAnd(memory[last.before.sp % 128], 32) = 32
    /\ (prev.op = "Pha" /\ last.op = "Pla") =>
          /\ fatal = "none"
          /\ chip.a = prev.before.a
          /\ chip.a = memory[chip.sp % 128]
          /\ chip.sp = prev.before.sp
    /\ (prev.op = "Php" /\ last.op = "Plp") =>
          /\ fatal = "none"
          /\ SameFlags(chip, prev.before)
          /\ chip.sp = prev.before.sp

\* C13 happens: with SP at the bottom of the RAM, PHP pushed N, D and Z
\* (0xAA with bit 5) into cell 0 and PLP brought the flags and SP back.
FlagsPulledAtBottomOfRam ==
    /\ prev.op = "Php"
    /\ prev.before.sp = 128
    /\ last.op = "Plp"
    /\ memory[0] = 170
    /\ chip.n /\ chip.d /\ chip.z /\ ~chip.c /\ ~chip.v /\ ~chip.i
    /\ chip.sp = 128
    /\ fatal = "none"

----------------------------------------------------------------------------
(* Properties of the arithmetic instructions (specification SpecCpu)        *)

\* The immediate operand of the instruction just executed.
ImmediateOperand == program[last.before.pc % PROGRAM_SIZE]

\* The carry as a number.
CarryIn(cpu) == IF cpu.c THEN 1 ELSE 0

\* Bit 7 of a byte.
Negative(byte) == byte >= 128

\* Nothing but A and the flags N, V, Z, C changed, and the program counter
\* is past the one operand byte.
OnlyAccumulatorAndFlags ==
    /\ chip.x = last.before.x
    /\ chip.y = last.before.y
    /\ chip.sp = last.before.sp
    /\ chip.pc = last.before.pc + 1
    /\ chip.d = last.before.d /\ chip.i = last.before.i /\ chip.b = last.before.b

\* C14: for all A, M in 0..255 and carry C, ADC leaves A' = (A + M + C) mod
\* 256, sets C exactly when A + M + C >= 256, Z exactly when A' = 0, N to
\* bit 7 of A', and V exactly when A and M have the same sign and A' has the
\* other sign.
AdcAddsWithCarry ==
    (last.op = "Adc" /\ last.mode = "Immediate") =>
        LET A == last.before.a
            M == ImmediateOperand
            sum == A + M + CarryIn(last.before)
        IN  /\ fatal = "none"
            /\ chip.a = sum % 256
            /\ chip.c <=> sum >= 256
            /\ chip.z <=> chip.a = 0
            /\ chip.n <=> Negative(chip.a)
            /\ chip.v <=> /\ Negative(A) = Negative(M)
                          /\ Negative(chip.a) # Negative(A)
            /\ OnlyAccumulatorAndFlags
            /\ last.clocks = 2

\* C14 happens: 0x80 + 0x80 gave 0x00 with carry, overflow and zero.
AdcCarriedAndOverflowed ==
    /\ last.op = "Adc"
    /\ last.before.a = 128
    /\ ImmediateOperand = 128
    /\ ~last.before.c
    /\ chip.a = 0
    /\ chip.c /\ chip.v /\ chip.z /\ ~chip.n

\* C15: for all A, M in 0..255 and carry C, SBC leaves A' = (A - M - (1 - C))
\* mod 256 and sets the carry exactly when A >= M + (1 - C), i.e. the same
\* A, C, V, N, Z as ADC applied to the operand !M.
SbcSubtractsWithBorrow ==
    (last.op = "Sbc" /\ last.mode = "Immediate") =>
        LET A == last.before.a
            M == ImmediateOperand
            borrow == 1 - CarryIn(last.before)
            adc == AdcChip(last.before, 255 - M)
        IN  /\ fatal = "none"
            /\ chip.a = (A - M - borrow + 256) % 256
            /\ chip.c <=> A >= M + borrow
            /\ chip.a = adc.a
            /\ chip.c = adc.c
            /\ chip.v = adc.v
            /\ chip.n = adc.n
            /\ chip.z = adc.z

\* C15 fails: 0x40 - 0x01 with the carry set gave 0x3F, no borrow was
\* needed, and the carry came out clear.
SbcClearedCarryWithoutBorrow ==
    /\ last.op = "Sbc"
    /\ last.before.a = 64
    /\ ImmediateOperand = 1
    /\ last.before.c
    /\ chip.a = 63
    /\ ~chip.c
    /\ fatal = "none"

----------------------------------------------------------------------------
(* Properties of the branches (specification SpecCpu)                       *)

\* The branch op is taken with the flags of cpu.
Taken(op, cpu) ==
    LET flag == CASE op \in {"Bpl", "Bmi"} -> cpu.n
                  [] op \in {"Bvc", "Bvs"} -> cpu.v
                  [] op \in {"Bcc", "Bcs"} -> cpu.c
                  [] OTHER -> cpu.z
    IN  flag = (op \in {"Bmi", "Bvs", "Bcs", "Beq"})

\* C16: every conditional branch returns 2 cycles and leaves PC at the next
\* instruction when not taken, returns 3 cycles when taken to a target in
\* the page of the next instruction and 4 cycles when the target lies in a
\* different page; when taken, PC becomes the next-instruction address plus
\* the sign-extended offset.
BranchCyclesAndTarget ==
    last.op \in Branches =>
        LET next == last.before.pc + 1
            offset == ImmediateOperand
            target == (next + (IF offset >= 128 THEN offset - 256 ELSE offset)) % 65536
        IN  /\ fatal = "none"
            /\ chip = [last.before EXCEPT !.pc = chip.pc]
            /\ ~Taken(last.op, last.before) =>
                  /\ chip.pc = next
                  /\ last.clocks = 2
            /\ Taken(last.op, last.before) =>
                  /\ chip.pc = target
                  /\ last.clocks = IF next \div 256 = target \div 256 THEN 3 ELSE 4

\* C16 happens: BNE with Z clear and offset 0x80 at 0x1000 went back from
\* 0x1001 to 0x0F81, across a page, in 4 cycles.
BranchTakenBackAcrossPage ==
    /\ last.op = "Bne"
    /\ last.before.pc = 4096
    /\ ImmediateOperand = 128
    /\ ~last.before.z
    /\ chip.pc = 3969
    /\ last.clocks = 4

----------------------------------------------------------------------------
(* Properties of the indexed modes (specification SpecCpu)                  *)

\* The base address of the indexed instruction just executed: its two
\* operand bytes, or for (ZeroPage),Y the pointer at the zero-page operand.
IndexedBase ==
    LET b0 == program[last.before.pc % PROGRAM_SIZE]
        b1 == program[(last.before.pc + 1) % PROGRAM_SIZE]
    IN  IF last.mode = "ZeroPageIY"
        THEN memory[(b0 + 1) % 128] * 256 + memory[b0 % 128]
        ELSE b1 * 256 + b0

\* The index register of the instruction just executed, as a byte 0..255.
IndexRegister ==
    IF last.mode = "AbsoluteX" THEN last.before.x ELSE last.before.y

\* base + index leaves the page of base.
PageCrossed ==
    IndexedBase \div 256 # ((IndexedBase + IndexRegister) % 65536) \div 256

\* C17: the reads ADC, SBC, AND, ORA, EOR, CMP, LDA, LDX, LDY return 4 cycles
\* with Absolute,X or Absolute,Y when base + index stays in the base's page
\* and 5 when it crosses a page (5 and 6 for (ZeroPage),Y); STA returns 5
\* with Absolute,X/Y and 6 with (ZeroPage),Y; ASL, LSR, ROL, ROR, INC, DEC
\* return 7 with Absolute,X, whether or not a page is crossed.
IndexedCycleCounts ==
    (/\ fatal = "none"
     /\ last.mode \in {"AbsoluteX", "AbsoluteY", "ZeroPageIY"}) =>
        /\ last.op \in ReadOps =>
              last.clocks = (IF last.mode = "ZeroPageIY" THEN 5 ELSE 4)
                            + (IF PageCrossed THEN 1 ELSE 0)
        /\ last.op = "Sta" =>
              last.clocks = IF last.mode = "ZeroPageIY" THEN 6 ELSE 5
        /\ last.op \in ModifyOps => last.clocks = 7

\* C17 fails: LDA $1080,X with X = 0x80 crosses into page 0x11 and returned
\* 4 cycles, having read 0x1000.
IndexedReadMissedPageCross ==
    /\ last.op = "Lda"
    /\ last.mode = "AbsoluteX"
    /\ IndexedBase = 4224
    /\ last.before.x = 128
    /\ PageCrossed
    /\ last.clocks = 4
    /\ chip.a = program[0]
    /\ fatal = "none"

\* The counts of C17 hold for every index below 0x80.
IndexedCycleCountsBelowSignBit ==
    IndexRegister < 128 => IndexedCycleCounts

\* An indexed read-modify-write across a page: ROR $00FF,X with X = 0x0D
\* took 7 cycles.
ModifyAcrossPage ==
    /\ last.op = "Ror"
    /\ IndexedBase = 255
    /\ last.before.x = 13
    /\ last.clocks = 7
    /\ fatal = "none"

----------------------------------------------------------------------------
(* Properties of the loads (specification SpecCpu)                          *)

\* The address of the operand of the instruction just executed, as the 6502
\* forms it: the index is an unsigned byte and zero-page sums stay in the
\* zero page. -1 for the immediate mode.
OperandAddress ==
    LET b0 == program[last.before.pc % PROGRAM_SIZE]
        b1 == program[(last.before.pc + 1) % PROGRAM_SIZE]
        x == last.before.x
        y == last.before.y
        Pointer(zp) == memory[((zp + 1) % 256) % 128] * 256 + memory[zp % 128]
    IN  CASE last.mode = "ZeroPage" -> b0
          [] last.mode = "ZeroPageX" -> (b0 + x) % 256
          [] last.mode = "ZeroPageY" -> (b0 + y) % 256
          [] last.mode = "Absolute" -> b1 * 256 + b0
          [] last.mode = "AbsoluteX" -> (b1 * 256 + b0 + x) % 65536
          [] last.mode = "AbsoluteY" -> (b1 * 256 + b0 + y) % 65536
          [] last.mode = "ZeroPageIX" -> Pointer((b0 + x) % 256)
          [] last.mode = "ZeroPageIY" -> (Pointer(b0) + y) % 65536
          [] OTHER -> -1

\* The operand is the immediate byte or lies in the program or the RAM.
OperandKnown ==
    \/ last.mode = "Immediate"
    \/ OperandAddress >= 0 /\ RegionOf(OperandAddress) \in {"ROM", "RAM"}

\* The operand of the instruction just executed.
OperandByte ==
    IF last.mode = "Immediate" THEN ImmediateOperand
    ELSE IF RegionOf(OperandAddress) = "ROM"
    THEN program[OperandAddress % PROGRAM_SIZE]
    ELSE memory[OperandAddress % 128]

\* The register a load writes.
Loaded ==
    CASE last.op = "Lda" -> chip.a
      [] last.op = "Ldx" -> chip.x
      [] OTHER -> chip.y

\* A load changed its register, Z and N and nothing else: not the other
\* registers, not the other flags, not the RAM (cell i still holds cell 0's
\* byte plus i).
LoadChangedNothingElse ==
    /\ \E value \in {Loaded}, z \in {chip.z}, n \in {chip.n} :
          chip = [LoadChip_KeepFlags(last.before, last.op, value)
                    EXCEPT !.z = z, !.n = n, !.pc = chip.pc]
    /\ \A i \in 0..(MEMORY_SIZE - 1) : memory[i] = (memory[0] + i) % 256

\* C18: for every LDA/LDX/LDY in every addressing mode, the target register
\* receives the operand, Z is set exactly when the operand is 0 and N is bit
\* 7 of the operand, and no other register, the carry and overflow flags,
\* or memory changes.
LoadReceivesOperand ==
    (last.op \in Loads /\ fatal = "none") =>
        /\ OperandKnown =>
              /\ Loaded = OperandByte
              /\ chip.z <=> OperandByte = 0
              /\ chip.n <=> Negative(OperandByte)
        /\ LoadChangedNothingElse

\* C18 fails: LDA $1080,X with X = 0x80 loaded the byte at 0x1000, not the
\* operand at 0x1100.
LoadReadBelowBase ==
    /\ last.op = "Lda"
    /\ last.mode = "AbsoluteX"
    /\ last.before.x = 128
    /\ OperandAddress = 4352
    /\ chip.a = program[0]
    /\ chip.a # OperandByte
    /\ fatal = "none"

\* What holds of every load: Z and N follow the byte that was loaded, and
\* nothing else changed.
LoadFlagsFollowLoadedByte ==
    (last.op \in Loads /\ fatal = "none") =>
        /\ chip.z <=> Loaded = 0
        /\ chip.n <=> Negative(Loaded)
        /\ LoadChangedNothingElse
        /\ (OperandKnown /\ (last.mode \in {"AbsoluteX", "AbsoluteY", "ZeroPageIY"}
                               => IndexRegister < 128))
              => Loaded = OperandByte

\* A load of zero: LDY #$00 over a non-zero Y with the flags all set cleared
\* N, set Z and kept C and V.
LoadedZero ==
    /\ last.op = "Ldy"
    /\ last.mode = "Immediate"
    /\ last.before.y # 0
    /\ last.before.n /\ last.before.c /\ last.before.v
    /\ chip.y = 0
    /\ chip.z /\ ~chip.n /\ chip.c /\ chip.v

\* C19 as stated: after any load or ADC/SBC whose operand has bit 7 set,
\* N = 1, for every prior value of A and the carry.
NegativeFromOperand ==
    (/\ last.op \in Loads \cup {"Adc", "Sbc"}
     /\ last.mode = "Immediate"
     /\ fatal = "none"
     /\ Negative(ImmediateOperand)) => chip.n

\* C19, amended: after a load whose operand has bit 7 set, N = 1; after ADC
\* and SBC, N is bit 7 of the result left in A, whatever bit 7 of the
\* operand is.
NegativeFromOperandOrResult ==
    (last.mode = "Immediate" /\ fatal = "none") =>
        /\ last.op \in Loads =>
              /\ Loaded = ImmediateOperand
              /\ chip.n <=> Negative(ImmediateOperand)
        /\ last.op = "Adc" =>
              /\ chip.a = (last.before.a + ImmediateOperand + CarryIn(last.before)) % 256
              /\ chip.n <=> Negative(chip.a)
        /\ last.op = "Sbc" =>
              /\ chip.a = (last.before.a + 255 - ImmediateOperand
                             + CarryIn(last.before)) % 256
              /\ chip.n <=> Negative(chip.a)

\* C19 happens: ADC of 0xFF to 0x01 left 0x00 and N clear, and a load of
\* 0xFF would have set N.
AdcOfNegativeOperandClearedN ==
    /\ last.op = "Adc"
    /\ last.before.a = 1
    /\ ~last.before.c
    /\ ImmediateOperand = 255
    /\ chip.a = 0
    /\ ~chip.n
    /\ LoadChip(chip, "Lda", ImmediateOperand).n

----------------------------------------------------------------------------
(* Properties of BIT (specification SpecCpu)                                *)

\* C20: for every A and memory operand M, BIT sets Z exactly when
\* (A & M) = 0, sets N to bit 7 of M and V to bit 6 of M independently of A,
\* and leaves A, M and the carry unchanged.
BitTestsOperand ==
    (last.op = "Bit" /\ fatal = "none") =>
        LET M == memory[0]
        IN  /\ chip.z <=> BitAnd(last.before.a, M) = 0
            /\ chip.n <=> BitSet(M, 7)
            /\ chip.v <=> BitSet(M, 6)
            /\ chip.a = last.before.a
            /\ chip.c = last.before.c
            /\ \A i \in 0..(MEMORY_SIZE - 1) : memory[i] = (M + i) % 256

\* C20 fails: BIT of 0xC0 with A = 0x00 set Z and left N and V clear.
BitLostOperandBits ==
    /\ last.op = "Bit"
    /\ last.before.a = 0
    /\ memory[0] = 192
    /\ chip.z
    /\ ~chip.n
    /\ ~chip.v
    /\ fatal = "none"

\* What BIT does: Z, N and V are all taken from A & M; A, M and the carry
\* stay, and 3 cycles are returned for the zero-page mode, 4 for Absolute.
BitTestsAccumulatorAndOperand ==
    (last.op = "Bit" /\ fatal = "none") =>
        LET test_value == BitAnd(last.before.a, memory[0])
        IN  /\ chip.z <=> test_value = 0
            /\ chip.n <=> BitSet(test_value, 7)
            /\ chip.v <=> BitSet(test_value, 6)
            /\ chip.a = last.before.a
            /\ chip.c = last.before.c
            /\ last.clocks = IF last.mode = "ZeroPage" THEN 3 ELSE 4

----------------------------------------------------------------------------
(* Properties of the picture (specification SpecTia)                        *)

\* The first visible line has been drawn from its first to its last pixel
\* and no register has changed since before its first pixel.
LineDrawn ==
    /\ tia.color_clocks = (DRAWING_START_ROW + 1) * COLOR_CLOCKS_PER_LINE
    /\ tw.k >= LineCycles

\* The pixel of a column of the first visible line.
Pixel(column) == PixelAt(tia.buffer, 0, column)

\* The playfield bit Tia::tick selects for a column.
BitOfColumn(column) ==
    PlayfieldBit(get_playfield(tia), (40 - column \div STRIDE) - 1)

\* The column of the right half that goes with column c of the left half.
Partner(c) == IF tia.pf_reflected THEN (DRAWING_COLUMNS - 1) - c ELSE c + 80

\* C21: on a visible line drawn with unchanged registers, for every column
\* c of the left half, the playfield bit of column c + 80 (pf_reflected
\* false) or of column 159 - c (pf_reflected true) is the bit of column c,
\* and where the player is drawn over neither, the two pixels are the same.
PlayfieldRepeatedOrMirrored ==
    LineDrawn =>
        \A c \in 0..79 :
            /\ BitOfColumn(Partner(c)) = BitOfColumn(c)
            /\ (~SpriteCovers(tia, c) /\ ~SpriteCovers(tia, Partner(c)))
                  => Pixel(Partner(c)) = Pixel(c)

\* A line was drawn reflected: the playfield colour in columns 0 and 159,
\* the background colour in column 80.
MirroredLineDrawn ==
    /\ LineDrawn
    /\ tia.pf_reflected
    /\ tia.colupf # tia.colubk
    /\ Pixel(0) = COLOR_MAP(tia.colupf)
    /\ Pixel(159) = COLOR_MAP(tia.colupf)
    /\ Pixel(80) = COLOR_MAP(tia.colubk)

\* The bit of PF0, PF1, PF2 that column c of the left half shows: PF0 bit
\* 4..7, PF1 bit 7..0, PF2 bit 0..7, four columns each.
LeftBit(c) ==
    LET k == c \div 4
    IN  CASE k < 4 -> BitAnd(tia.pf0, 2 ^ (4 + k)) # 0
          [] k >= 4 /\ k < 12 -> BitAnd(tia.pf1, 2 ^ (11 - k)) # 0
          [] OTHER -> BitAnd(tia.pf2, 2 ^ (k - 12)) # 0

\* The colour of the playfield draw in column c of the left half.
PlayfieldColor(c) ==
    IF LeftBit(c) THEN COLOR_MAP(tia.colupf) ELSE COLOR_MAP(tia.colubk)

\* C22 as stated: on a visible line drawn with unchanged registers every
\* pixel of the left half has the COLUPF colour when its bit of PF0 (bits
\* 4..7), PF1 (7..0), PF2 (0..7) is set, the COLUBK colour otherwise, and
\* the PF0 register holds nothing of the low nibble written.
LeftHalfShowsPlayfield ==
    LineDrawn =>
        /\ tia.pf0 % 16 = 0
        /\ \A c \in 0..79 : Pixel(c) = PlayfieldColor(c)

\* C22, amended: the same, but for the pixels the player is drawn over,
\* which have the COLUP0 colour.
LeftHalfShowsPlayfieldUnderPlayer ==
    LineDrawn =>
        /\ tia.pf0 % 16 = 0
        /\ \A c \in 0..79 :
              Pixel(c) = IF SpriteCovers(tia, c) THEN COLOR_MAP(tia.colup0)
                         ELSE PlayfieldColor(c)

\* PF0 = 0x10 and PF1 = PF2 = 0 were drawn without reflection and without
\* the player: exactly the columns 0..3 and 80..83 have the COLUPF colour.
Pf0Bit4Drawn ==
    /\ LineDrawn
    /\ tia.pf0 = 16 /\ tia.pf1 = 0 /\ tia.pf2 = 0
    /\ tia.colupf # tia.colubk
    /\ {c \in 0..(DRAWING_COLUMNS - 1) : Pixel(c) = COLOR_MAP(tia.colupf)}
          = (0..3) \cup (80..83)
    /\ \A c \in 0..(DRAWING_COLUMNS - 1) :
          Pixel(c) \in {COLOR_MAP(tia.colupf), COLOR_MAP(tia.colubk)}

\* The low nibble written to PF0 was dropped and the player was drawn over
\* the playfield.
PlayerDrawnOverPlayfield ==
    /\ LineDrawn
    /\ tia.pf0 = 80
    /\ \E c \in 0..79 :
          /\ SpriteCovers(tia, c)
          /\ Pixel(c) = COLOR_MAP(tia.colup0)
          /\ Pixel(c) # PlayfieldColor(c)

----------------------------------------------------------------------------
(* Properties of the input latches (specification SpecInput)                *)

\* The SWCHA bit of a direction is 0.
Low(swcha, input) == BitAnd(swcha, SwchaBit(input)) = 0

\* The byte a read of INPT4 returns when the latches follow the events.
Inpt4Expected == IF "Joystick1Button" \in held THEN 0 ELSE 128

\* C23, the latches: the SWCHA bit of a direction is 0 exactly when the most
\* recent event of the direction was InputStart, bits 0..3 are 1, a read of
\* SWCHA returns the latch and a read of INPT4 returns 0x00 exactly when
\* the most recent event of the trigger was InputStart, 0x80 otherwise.
LatchesFollowEvents ==
    /\ \A d \in Directions : Low(riot.swcha, d) <=> d \in held
    /\ riot.swcha % 16 = 15
    /\ (last.kind = "get" /\ last.addr = SWCHA) => last.value = riot.swcha
    /\ (last.kind = "get" /\ last.addr = INPT4) => last.value = Inpt4Expected

\* C23, the events: an event changes no SWCHA bit but that of its own
\* direction; Quit, None and the trigger events change none.
EventChangesOwnBit ==
    last'.kind = "input" =>
        \A d \in Directions :
            (d # last'.event.input \/ last'.event.kind \notin {"InputStart", "InputEnd"})
               => (Low(riot'.swcha, d) <=> Low(riot.swcha, d))

\* C23: from power-on, after any sequence of input events, the latches
\* follow the events and an event changes only its own latch bit.
InputLatchesFollowEvents == [] LatchesFollowEvents /\ [][EventChangesOwnBit]_vars

\* SWCHA was read as 0x00 from a system no direction event had been sent to.
SwchaReadZeroAtPowerOn ==
    /\ last.kind = "get" /\ last.addr = SWCHA /\ last.value = 0
    /\ held = {}
    /\ prev = NoOp

\* What does hold from power-on: a direction whose most recent event was
\* InputStart reads 0, the trigger register follows the trigger events, and
\* an event changes only its own latch bit.
HeldInputsReadLow ==
    /\ [] /\ \A d \in Directions : d \in held => Low(riot.swcha, d)
          /\ (last.kind = "get" /\ last.addr = INPT4) => last.value = Inpt4Expected
          /\ tia.joystick1_trigger_pressed <=> "Joystick1Button" \in held
    /\ [][EventChangesOwnBit]_vars

\* A direction was released after being held and its bit is 1 again, while
\* the trigger is held and INPT4 read 0x00.
ReleasedReadsHigh ==
    /\ last.kind = "get" /\ last.addr = INPT4 /\ last.value = 0
    /\ "Joystick1Button" \in held
    /\ "Joystick1Up" \notin held /\ ~Low(riot.swcha, "Joystick1Up")
    /\ "Joystick1Left" \in held /\ Low(riot.swcha, "Joystick1Left")

----------------------------------------------------------------------------
(* Properties of the replay (specification SpecReplay)                      *)

----------------------------------------------------------------------------
(* Properties of the unsupported instructions (specification SpecCpu)       *)

\* An instruction is executed only while nothing has panicked.
OnlyWhileAlive == fatal = "none"

\* BRK or RTI was the last instruction: it panicked, returned no cycle
\* count and changed no register, and the instruction after it is still to
\* execute.
BrkRtiPanicked ==
    last.op \in {"Brk", "Rti"} =>
        /\ fatal # "none"
        /\ last.clocks = 0
        /\ chip = last.before
        /\ todo = <<I("Lda", "Immediate")>>

\* C25: whatever the registers and flags, executing BRK (opcode 0x00) or RTI
\* (opcode 0x40) fails fatally instead of returning a cycle count, and after
\* it no further instruction is executed.
BrkAndRtiFailFatally == [] BrkRtiPanicked /\ [][OnlyWhileAlive]_vars

\* RTI was executed with the flags set and the accumulator 0xFF, and the
\* process ended with the LDA after it not executed.
RtiEndedTheRun ==
    /\ last.op = "Rti" /\ last.before.a = 255 /\ last.before.c
    /\ fatal = "BRK and RTI not implemented"
    /\ todo # << >>

----------------------------------------------------------------------------
(* Properties of the timer after its underflow (specification SpecRiot)     *)

\* The timer has underflowed and runs: TIMINT is set, the prescaler is 1.
Underflowed(r) == r.timint /\ r.clocks_per_interval = 1 /\ ~r.timer_reset

\* A tick(n) of an underflowed timer changes the timer by -n modulo 256;
\* n is what the tick adds to the cycles counted since the write.
UnderflowedTickSubtractsCycles ==
    (last'.kind = "tick" /\ Underflowed(riot))
        => riot'.timer = (riot.timer - (tw'.k - tw.k)) % 256

\* C27: once the timer has underflowed, every tick(n), the first one after
\* the underflow included, changes the timer by -n modulo 256, whatever
\* prescaler was in force before the underflow.
TimerCountsCyclesAfterUnderflow == [][UnderflowedTickSubtractsCycles]_vars

\* TIM8T was written with 0, tick(1) underflowed the timer to 0xFF, and the
\* next tick(1) took it to 0xF7, eight down.
FirstTickAfterUnderflowAddsInterval ==
    /\ last.kind = "tick"
    /\ tw = [n |-> 0, p |-> 8, k |-> 2]
    /\ riot.timint /\ riot.clocks_per_interval = 1
    /\ riot.timer = 247

\* What the code does: the overflow branch of Riot::tick leaves Riot.clocks
\* as it was, so a tick(n) of an underflowed timer subtracts n plus the
\* cycles left in Riot.clocks, which the tick then sets to zero.
UnderflowedTickSubtractsClocksToo ==
    (last'.kind = "tick" /\ Underflowed(riot))
        => riot'.timer = (riot.timer - (tw'.k - tw.k) - riot.clocks) % 256
TimerCountsLeftoverAfterUnderflow == [][UnderflowedTickSubtractsClocksToo]_vars

----------------------------------------------------------------------------
(* Properties of the loop's latches (specification Spec)                    *)

\* The instruction just executed wrote a timer register.
TimerJustWritten == last.kind = "Sta" /\ last.addr \in TimerRegs

\* The RIOT after the two ticks of an iteration that returned `cycles` and
\* stalled `extra`.
RiotAfter(r, cycles, extra) == RiotTick(RiotTick(r, cycles), extra)

\* The instruction after a timer write, unless it writes a timer itself,
\* counts its cycles and those of its stall on the timer: the timer and the
\* cycles kept in Riot.clocks are those of a running tick, and they moved.
NextInstructionCounts ==
    (TimerJustWritten /\ fatal' = "none" /\ ~(last'.kind = "Sta" /\ last'.addr \in TimerRegs))
        => /\ ~riot.timer_reset
           /\ riot'.timer = RiotAfter(riot, last'.cycles, last'.extra).timer
           /\ riot'.clocks = RiotAfter(riot, last'.cycles, last'.extra).clocks
           /\ <<riot'.timer, riot'.clocks, riot'.clocks_per_interval>>
                # <<riot.timer, riot.clocks, riot.clocks_per_interval>>

----------------------------------------------------------------------------
(* Properties of the phase of CPU clock and beam (specification Spec)       *)

\* The beam is where three colour clocks per CPU cycle put it.
PhaseLocked ==
    tia.color_clocks = (COLOR_CLOCKS_PER_SYSTEM_CLOCK * clocks) % COLOR_CLOCKS_PER_FRAME

\* The iteration resets the frame: its instruction writes WSYNC while VSYNC
\* is set, the case in which sync() assigns color_clocks.
FrameReset == last'.kind = "Sta" /\ last'.addr = WSYNC /\ tia.vsync

\* An iteration without frame reset moves the beam by three times the cycles
\* it adds to system.clocks, so it keeps the phase.
BeamFollowsClock ==
    (~FrameReset /\ fatal' = "none")
        => /\ tia'.color_clocks =
                (tia.color_clocks + COLOR_CLOCKS_PER_SYSTEM_CLOCK * (clocks' - clocks))
                    % COLOR_CLOCKS_PER_FRAME
           /\ PhaseLocked => PhaseLocked'

\* An iteration that does not write a timer ticks the RIOT by the cycles it
\* adds to system.clocks: those the instruction returned, then the stall.
RiotFollowsClock ==
    (fatal' = "none" /\ ~(last'.kind = "Sta" /\ last'.addr \in TimerRegs))
        => /\ clocks' - clocks = last'.cycles + last'.extra
           /\ riot'.timer = RiotAfter(riot, last'.cycles, last'.extra).timer
           /\ riot'.clocks = RiotAfter(riot, last'.cycles, last'.extra).clocks

\* PhaseLocked holds when the run starts.
PhaseLockedAtStart == steps = 0 => PhaseLocked

----------------------------------------------------------------------------
(* Properties of the TIA's latches (specification SpecTia)                  *)

\* The WSYNC latch is raised only by a write to index 0x02.
WsyncRaisedByItsWrite ==
    (~tia.wsync /\ tia'.wsync) => (last'.kind = "set" /\ last'.addr = WSYNC)

\* A write to index 0x02 raises it, and no other write, tick or input event
\* changes it.
WsyncKeptUntilSync ==
    /\ (last'.kind = "set" /\ last'.addr = WSYNC) => tia'.wsync
    /\ (last'.kind # "sync" /\ ~(last'.kind = "set" /\ last'.addr = WSYNC))
          => tia'.wsync = tia.wsync

\* sync() clears the latch, and returns a stall exactly when it was set.
SyncConsumesWsync ==
    last'.kind = "sync" => (~tia'.wsync /\ (last'.extra > 0 <=> tia.wsync))

WsyncClearAtLoopBoundary == ~tia.wsync

\* The deferred flag of RESP0 is raised only by a write to index 0x10, and
\* no write changes resp0 or color_clocks.
WritesAreDeferred ==
    /\ (~tia.set_resp0 /\ tia'.set_resp0) => (last'.kind = "set" /\ last'.addr = RESP0)
    /\ (last'.kind = "set" /\ last'.addr = RESP0) => tia'.set_resp0
    /\ last'.kind \in {"set", "input"}
          => (tia'.resp0 = tia.resp0 /\ tia'.color_clocks = tia.color_clocks)

\* resp0 changes only in a sync() that finds the flag set; such a sync()
\* sets it to the beam position + 6 and clears the flag; a tick and a
\* sync() that finds the flag clear leave both alone.
Resp0AppliedAtSync ==
    /\ tia'.resp0 # tia.resp0 => (last'.kind = "sync" /\ tia.set_resp0)
    /\ (last'.kind = "sync" /\ tia.set_resp0)
          => /\ tia'.resp0 = (tia.color_clocks % COLOR_CLOCKS_PER_LINE) + 6
             /\ ~tia'.set_resp0
    /\ (last'.kind = "tick" \/ (last'.kind = "sync" /\ ~tia.set_resp0))
          => (tia'.resp0 = tia.resp0 /\ tia'.set_resp0 = tia.set_resp0)

\* color_clocks is assigned 228 * 3 by a sync() that finds the WSYNC latch
\* and VSYNC set, and is otherwise changed only by a tick, which adds three
\* colour clocks per cycle.
FrameResetAtSync ==
    /\ last'.kind = "sync"
          => tia'.color_clocks = IF tia.wsync /\ tia.vsync THEN 228 * 3
                                 ELSE tia.color_clocks
    /\ last'.kind = "tick"
          => tia'.color_clocks =
                (tia.color_clocks + COLOR_CLOCKS_PER_SYSTEM_CLOCK * last'.cycles)
                    % COLOR_CLOCKS_PER_FRAME

\* C30: a write to RESP0 or VSYNC changes neither resp0 nor color_clocks;
\* resp0 becomes (color_clocks mod 228) + 6 only at the next sync(), which
\* also clears the deferred flag, and color_clocks is set to 228 * 3 only
\* inside sync() when both the WSYNC latch and VSYNC are set.
Resp0AndFrameResetDeferredToSync ==
    /\ [][WritesAreDeferred]_vars
    /\ [][Resp0AppliedAtSync]_vars
    /\ [][FrameResetAtSync]_vars

\* RESP0 was strobed at the start of the line and sync() ran a quarter of a
\* line later: the player is at the beam position of the sync, 57 + 6.
Resp0PlacedAtSync ==
    /\ last.kind = "sync"
    /\ steps = 1
    /\ ~tia.set_resp0
    /\ tia.color_clocks % COLOR_CLOCKS_PER_LINE = (LineCycles \div 4) * COLOR_CLOCKS_PER_SYSTEM_CLOCK
    /\ tia.resp0 = (tia.color_clocks % COLOR_CLOCKS_PER_LINE) + 6

\* VSYNC and WSYNC were written and sync() reset the frame after a tick.
FrameResetBySync ==
    /\ last.kind = "sync" /\ last.extra > 0
    /\ tia.vsync /\ ~tia.wsync
    /\ tia.color_clocks = 228 * 3

----------------------------------------------------------------------------
(* Properties of the player (specification SpecTia)                         *)

\* The player covers column c: NUSIZ0 is Quad, resp0 is at least 68, c is
\* one of the 32 columns from resp0 - 68 on, and the bit 7 - (c - (resp0 -
\* 68)) / 4 of GRP0 is set.
PlayerAt(t, c) ==
    /\ t.nusize0 = "Quad"
    /\ t.resp0 >= DRAWING_START_COLUMN
    /\ t.resp0 - DRAWING_START_COLUMN <= c
    /\ c < t.resp0 - DRAWING_START_COLUMN + 32
    /\ BitAnd(t.grp0, 2 ^ (7 - ((c - (t.resp0 - DRAWING_START_COLUMN)) \div 4))) # 0

\* The colour the playfield draw gives a column, either half of the line,
\* pf being the playfield word.
PlayfieldOrBackground(t, pf, c) ==
    IF PlayfieldBit(pf, (40 - c \div STRIDE) - 1)
    THEN COLOR_MAP(t.colupf) ELSE COLOR_MAP(t.colubk)

\* Every pixel a tick paints has the COLUP0 colour where the player covers
\* its column, and the colour of the playfield draw elsewhere; the tick
\* changes no other pixel and does not panic.
TickDrawsPlayer ==
    last'.kind = "tick" =>
        LET pf == get_playfield(tia)
            pixels == {PixelOf(i) : i \in Painted(tia, last'.cycles)}
        IN  /\ fatal' = "none"
            /\ \A p \in pixels :
                  tia'.buffer.painted[p]
                    = IF PlayerAt(tia, p % WIDTH) THEN COLOR_MAP(tia.colup0)
                      ELSE PlayfieldOrBackground(tia, pf, p % WIDTH)
            /\ \A p \in DOMAIN tia.buffer.painted \ pixels :
                  tia'.buffer.painted[p] = tia.buffer.painted[p]

\* C31: a pixel painted at column c gets the COLUP0 colour in place of the
\* playfield or background colour exactly when NUSIZ0 is Quad, resp0 - 68 <=
\* c < resp0 - 68 + 32 and bit 7 - (c - (resp0 - 68)) / 4 of GRP0 is set;
\* with NUSIZ0 = OneCopy or with resp0 < 68 the player changes no pixel, and
\* no tick is fatal.
PlayerReplacesPlayfieldColour == [][TickDrawsPlayer]_vars

\* The line was drawn with the player of GRP0 = 0xA5 at resp0 = 78: of the
\* visible columns exactly 10..13, 18..21, 30..33 and 38..41 have the COLUP0
\* colour.
PlayerPatternDrawn ==
    /\ LineDrawn
    /\ tia.nusize0 = "Quad" /\ tia.grp0 = 165 /\ tia.resp0 = 78
    /\ {c \in 0..(DRAWING_COLUMNS - 1) : Pixel(c) = COLOR_MAP(tia.colup0)}
          = (10..13) \cup (18..21) \cup (30..33) \cup (38..41)

\* The line was drawn after RESP0 had put a Quad player with GRP0 = 0xFF at
\* resp0 = 63, left of the first visible column: no pixel has its colour.
PlayerLeftOfScreenDrawsNothing ==
    /\ last.kind = "tick"
    /\ tia.color_clocks = (DRAWING_START_ROW + 1) * COLOR_CLOCKS_PER_LINE
    /\ tia.nusize0 = "Quad" /\ tia.grp0 = 255 /\ tia.resp0 = 63
    /\ \A c \in 0..(DRAWING_COLUMNS - 1) :
          Pixel(c) = PlayfieldOrBackground(tia, get_playfield(tia), c)

----------------------------------------------------------------------------
(* Properties of the compares and transfers (specification SpecCpu)         *)

\* The next instruction is a compare with an immediate operand or with an
\* operand in RAM.
CompareNext ==
    /\ todo # << >>
    /\ Head(todo).op \in Compares
    /\ \/ Head(todo).mode = "Immediate"
       \/ Head(todo).mode = "ZeroPage" /\ program[chip.pc % PROGRAM_SIZE] >= 128

\* Its register and its operand.
CompareRegister ==
    CASE Head(todo).op = "Cmp" -> chip.a
      [] Head(todo).op = "Cpx" -> chip.x
      [] OTHER -> chip.y
CompareOperand ==
    IF Head(todo).mode = "Immediate" THEN program[chip.pc % PROGRAM_SIZE]
    ELSE memory[program[chip.pc % PROGRAM_SIZE] - 128]

\* A compare leaves A, X, Y and the memory alone and sets Z and N from
\* register - operand.
CompareSetsZeroAndNegative ==
    CompareNext =>
        /\ fatal' = "none"
        /\ chip'.a = chip.a /\ chip'.x = chip.x /\ chip'.y = chip.y
        /\ memory' = memory
        /\ chip'.z = (CompareRegister = CompareOperand)
        /\ chip'.n = (((CompareRegister - CompareOperand) % 256) >= 128)

\* C sets exactly when register >= operand.
CompareCarryNoBorrow ==
    CompareNext => (chip'.c = (CompareRegister >= CompareOperand))

\* C32, as the claim states it: CMP, CPX and CPY leave A, X, Y and memory
\* unchanged, set Z exactly when register = operand, N to bit 7 of (register
\* - operand) mod 256, and C exactly when register >= operand.
CompareSetsFlagsFromDifference ==
    [][CompareSetsZeroAndNegative]_vars /\ [][CompareCarryNoBorrow]_vars

\* CMP #0x40 with A = 0x40 set Z and left C clear.
CompareEqualClearsCarry ==
    /\ last.op = "Cmp" /\ last.mode = "Immediate"
    /\ last.before.a = 64 /\ program[last.before.pc % PROGRAM_SIZE] = 64
    /\ fatal = "none"
    /\ chip.z /\ ~chip.c

\* What the code does: C sets exactly when register > operand; the rest of
\* the claim holds.
CompareCarryStrictlyGreater ==
    CompareNext => (chip'.c = (CompareRegister > CompareOperand))
CompareSetsCarryOnlyWhenGreater ==
    [][CompareSetsZeroAndNegative]_vars /\ [][CompareCarryStrictlyGreater]_vars

\* The value a transfer moved and the register it arrived in.
Transferred ==
    CASE last.op \in {"Tax", "Tay"} -> last.before.a
      [] last.op \in {"Txa", "Txs"} -> last.before.x
      [] last.op = "Tya" -> last.before.y
      [] OTHER -> last.before.sp
Destination ==
    CASE last.op \in {"Tax", "Tsx"} -> chip.x
      [] last.op \in {"Txa", "Tya"} -> chip.a
      [] last.op = "Tay" -> chip.y
      [] OTHER -> chip.sp

\* The flags of the chip, in the order N V D I B Z C.
FlagsOf(cpu) == <<cpu.n, cpu.v, cpu.d, cpu.i, cpu.b, cpu.z, cpu.c>>

\* A transfer copies its source to its destination, changes no other
\* register, and returns 2 cycles.
TransferCopies ==
    last.op \in Transfers =>
        /\ fatal = "none"
        /\ last.clocks = 2
        /\ Destination = Transferred
        /\ chip.pc = last.before.pc
        /\ last.op \notin {"Txa", "Tya"} => chip.a = last.before.a
        /\ last.op \notin {"Tax", "Tsx"} => chip.x = last.before.x
        /\ last.op # "Tay" => chip.y = last.before.y
        /\ last.op # "Txs" => chip.sp = last.before.sp

\* TXS leaves every flag unchanged.
TxsKeepsFlags == last.op = "Txs" => FlagsOf(chip) = FlagsOf(last.before)

\* The transfers of `ops` set Z exactly when the value is 0 and N to its bit
\* 7, and leave the other flags alone.
SetsZeroAndNegative(ops) ==
    last.op \in ops =>
        /\ chip.z = (Transferred = 0)
        /\ chip.n = (Transferred >= 128)
        /\ <<chip.v, chip.d, chip.i, chip.b, chip.c>>
             = <<last.before.v, last.before.d, last.before.i, last.before.b,
                 last.before.c>>

\* C33, as the claim states it: TAX, TXA, TAY, TYA and TSX copy the source
\* to the destination, return 2 cycles and set Z exactly when the value is 0
\* and N to its bit 7; TXS copies X to SP, returns 2 cycles and leaves every
\* flag unchanged.
TransfersCopyAndSetFlags ==
    /\ TransferCopies
    /\ TxsKeepsFlags
    /\ SetsZeroAndNegative({"Tax", "Txa", "Tay", "Tya", "Tsx"})

\* TSX moved SP = 0x00 into X with the flags clear, and Z is still clear.
TsxOfZeroLeavesZeroClear ==
    /\ last.op = "Tsx" /\ last.before.sp = 0 /\ ~last.before.z
    /\ fatal = "none"
    /\ chip.x = 0 /\ ~chip.z

\* What the code does: TSX, like TXS, leaves every flag unchanged; the rest
\* of the claim holds.
TransfersButTsxSetFlags ==
    /\ TransferCopies
    /\ last.op \in {"Txs", "Tsx"} => FlagsOf(chip) = FlagsOf(last.before)
    /\ SetsZeroAndNegative({"Tax", "Txa", "Tay", "Tya"})

----------------------------------------------------------------------------
(* Properties of the RIOT reads (specification SpecBus)                     *)

\* memory_get hands the read of address a to Riot::get.
RoutedToRiot(a) == ~IsProgram(a) /\ ~IsMemory(a) /\ ~IsTia(a) /\ IsRiotRead(a)

\* This step is a bus read that memory_get handed to the RIOT.
RiotReadStep == last'.kind = "read" /\ steps' = steps + 1 /\ RoutedToRiot(last'.addr)

ReadGaveTimer ==
    /\ fatal' = "none"
    /\ last'.value = riot.timer
    /\ riot' = [riot EXCEPT !.timint = FALSE]
ReadGaveSwcha ==
    /\ fatal' = "none"
    /\ last'.value = riot.swcha
    /\ riot' = riot

\* C34, as the claim states it: a bus read routed to the RIOT returns the
\* timer and clears TIMINT only for index 0x284, returns SWCHA and changes
\* nothing only for index 0x280, and is fatal for any other index.
RiotReadOnlyIntimAndSwcha ==
    RiotReadStep =>
        CASE last'.addr = INTIM -> ReadGaveTimer
          [] last'.addr = SWCHA -> ReadGaveSwcha
          [] OTHER -> fatal' # "none"
OtherRiotReadsAreFatal == [][RiotReadOnlyIntimAndSwcha]_vars

\* A read of 0x0285 returned the timer written before it, and the run goes
\* on.
ReadOf0285GaveTimer ==
    /\ last.kind = "read" /\ last.addr = 645 /\ last.value = 7
    /\ prev.kind = "write" /\ prev.addr = 660 /\ prev.value = 7
    /\ fatal = "none"

\* What the code does: every read routed to the RIOT has bits 9 and 7 of the
\* address set, so none is fatal; it returns the timer and clears TIMINT
\* when bit 2 is set too, and SWCHA otherwise.
RiotReadDecodesBitTwo ==
    RiotReadStep =>
        /\ BitAnd(last'.addr, 640) = 640
        /\ IF BitAnd(last'.addr, 4) # 0 THEN ReadGaveTimer ELSE ReadGaveSwcha
NoRiotReadIsFatal == [][RiotReadDecodesBitTwo]_vars

\* A read of 0x0282 returned SWCHA.
ReadOf0282GaveSwcha ==
    /\ last.kind = "read" /\ last.addr = 642 /\ last.value = riot.swcha
    /\ fatal = "none"

----------------------------------------------------------------------------
(* Properties of the indexed address modes (specification SpecCpu)          *)

\* This step executes an instruction in one of `modes`.
StepInMode(modes) ==
    todo # << >> /\ Head(todo).mode \in modes /\ todo' = Tail(todo)

\* The operand byte at PC, the index register of the mode, and what
\* AddressMode::execute gives for them in a build with or without overflow
\* checks.
ByteAtPc == program[chip.pc % PROGRAM_SIZE]
IndexOf(mode) == IF mode \in {"ZeroPageX", "AbsoluteX"} THEN chip.x ELSE chip.y
Resolved(checks) == AddressModeExecute(Sys, Head(todo).mode, checks)

ZeroPageIndexedWraps ==
    StepInMode({"ZeroPageX", "ZeroPageY"}) =>
        /\ fatal' # "attempt to add with overflow"
        /\ \A checks \in BOOLEAN :
               /\ Resolved(checks).sys.fatal = "none"
               /\ Resolved(checks).kind = "Address"
               /\ Resolved(checks).addr
                    = (ByteAtPc + IndexOf(Head(todo).mode)) % 256

\* C35, as the claim states it: for ZeroPage,X and ZeroPage,Y the effective
\* address is (operand + index) mod 256 for every operand and index,
\* including sums above 0xFF, and computing it never causes a fatal error.
ZeroPageIndexNeverFatal == [][ZeroPageIndexedWraps]_vars

\* STA 0xFF,X with X = 0x01 panicked on the addition.
ZeroPageIndexOverflowed ==
    /\ last.op = "Sta" /\ last.mode = "ZeroPageX" /\ last.before.x = 1
    /\ program[last.before.pc % PROGRAM_SIZE] = 255
    /\ fatal = "attempt to add with overflow"

\* What the code does: without overflow checks the address is
\* (operand + index) mod 256; with them a sum above 0xFF panics and a sum up
\* to 0xFF gives the same address.
ZeroPageIndexedByBuild ==
    StepInMode({"ZeroPageX", "ZeroPageY"}) =>
        LET sum == ByteAtPc + IndexOf(Head(todo).mode)
        IN  /\ Resolved(FALSE).sys.fatal = "none"
            /\ Resolved(FALSE).addr = sum % 256
            /\ sum > 255 => Resolved(TRUE).sys.fatal = "attempt to add with overflow"
            /\ sum <= 255 => Resolved(TRUE) = Resolved(FALSE)
            /\ fatal' = "attempt to add with overflow" => sum > 255
ZeroPageIndexWrapsUnchecked == [][ZeroPageIndexedByBuild]_vars

\* STA 0xFF,X with X = 0xFF stored A in the RAM cell at 0x00FE.
ZeroPageIndexWrappedStore ==
    /\ last.op = "Sta" /\ last.mode = "ZeroPageX" /\ last.before.x = 255
    /\ program[last.before.pc % PROGRAM_SIZE] = 255
    /\ fatal = "none"
    /\ memory[126] = last.before.a

----------------------------------------------------------------------------
(* Properties of the stack pointer (specification SpecCpu)                  *)

\* A push was executed with SP = 0x00, a pull with SP = 0xFF.
PushedAtBottom == last.op \in {"Pha", "Php", "Jsr"} /\ last.before.sp = 0
PulledAtTop == last.op \in {"Pla", "Plp", "Rts"} /\ last.before.sp = 255

\* C36, as the claim states it: stack-pointer arithmetic wraps modulo 256
\* and never fails; a push with SP = 0x00 leaves SP = 0xFF (0xFE for JSR), a
\* pull with SP = 0xFF leaves SP = 0x00 (0x01 for RTS).
StackPointerWraps ==
    /\ PushedAtBottom =>
          /\ fatal = "none"
          /\ chip.sp = IF last.op = "Jsr" THEN 254 ELSE 255
    /\ PulledAtTop =>
          /\ fatal = "none"
          /\ chip.sp = IF last.op = "Rts" THEN 1 ELSE 0

\* PHA with SP = 0x00 panicked on the subtraction.
PushAtBottomPanicked ==
    /\ last.op = "Pha" /\ last.before.sp = 0
    /\ fatal = "attempt to subtract with overflow"

\* What the code does: with overflow checks the push at 0x00 and the pull
\* at 0xFF panic on the arithmetic; without them the push wraps to 0xFF
\* (0xFE for JSR), and the pull wraps to 0x00 and then panics on the read of
\* address 0x0000, which the TIA does not implement.
StackEdgesByBuild ==
    /\ PushedAtBottom =>
          \/ fatal = "attempt to subtract with overflow"
          \/ /\ fatal = "none"
             /\ chip.sp = IF last.op = "Jsr" THEN 254 ELSE 255
    /\ PulledAtTop =>
          \/ fatal = "attempt to add with overflow"
          \/ fatal = "Tia get not implemented" /\ chip.sp = 0

\* JSR with SP = 0x00 left SP = 0xFE and the low byte of the return address
\* in the RAM cell at 0x00FF.
JsrAtBottomWrapped ==
    /\ last.op = "Jsr" /\ last.before.sp = 0
    /\ fatal = "none"
    /\ chip.sp = 254
    /\ memory[127] = 1

\* PLA with SP = 0xFF wrapped and panicked on the read.
PullAtTopReadTia ==
    /\ last.op = "Pla" /\ last.before.sp = 255
    /\ fatal = "Tia get not implemented"

\* The base the index is added to: the two operand bytes, or for
\* (ZeroPage),Y the pointer in the RAM cells the operand names.
BaseAtPc ==
    IF Head(todo).mode = "ZeroPageIY"
    THEN memory[(ByteAtPc + 1) % 128] * 256 + memory[ByteAtPc % 128]
    ELSE program[(chip.pc + 1) % PROGRAM_SIZE] * 256 + ByteAtPc

\* The address being a, the AddressValue is Address { addr: a,
\* page_boundary_crossed: a's page differs from the base's, is_offset: true }.
ResolvedTo(a) ==
    \A checks \in BOOLEAN :
        /\ Resolved(checks).sys.fatal = "none"
        /\ Resolved(checks).kind = "Address"
        /\ Resolved(checks).addr = a
        /\ Resolved(checks).page_boundary_crossed = (Page(a) # Page(BaseAtPc))

IndexAddedUnsigned ==
    StepInMode({"AbsoluteX", "AbsoluteY", "ZeroPageIY"}) =>
        ResolvedTo((BaseAtPc + IndexOf(Head(todo).mode)) % 65536)

\* C37, as the claim states it: for Absolute,X, Absolute,Y and (ZeroPage),Y
\* the effective address is (base + index) mod 65536 with the index an
\* unsigned value 0..255, and page_crossed is true exactly when the high byte
\* of that sum differs from the high byte of base; an index of 0x80..0xFF
\* moves the address upward, never downward.
IndexedAddressIsBasePlusIndex == [][IndexAddedUnsigned]_vars

\* ADC $1100,Y with Y = 0xFF returned 5 cycles: the address left page 0x11,
\* which 0x1100 + 0xFF does not.
IndexMovedAddressDown ==
    /\ last.op = "Adc" /\ last.mode = "AbsoluteY" /\ last.before.y = 255
    /\ program[last.before.pc % PROGRAM_SIZE] = 0
    /\ program[(last.before.pc + 1) % PROGRAM_SIZE] = 17
    /\ fatal = "none"
    /\ last.clocks = 5

\* What the code does: the index is cast `as i8`, so 0x00..0x7F is added and
\* 0x80..0xFF moves the address down by 256 - index; page_boundary_crossed
\* compares the page of that address with the base's.
IndexAddedSigned ==
    StepInMode({"AbsoluteX", "AbsoluteY", "ZeroPageIY"}) =>
        LET index == IndexOf(Head(todo).mode)
        IN  ResolvedTo((BaseAtPc + (IF index >= 128 THEN index - 256 ELSE index)
                        + 65536) % 65536)
IndexedAddressIsBasePlusSignedIndex == [][IndexAddedSigned]_vars

----------------------------------------------------------------------------
(* Properties of the new system (specification SpecInput)                   *)

\* Nothing has happened since System::new but at most one read of an input
\* register.
JustConstructed == prev = NoOp /\ last.kind \in {"none", "get"}

\* The registers, clocks and timer after System::new.
NewSystemIsZeroed ==
    /\ fatal = "none"
    /\ chip.pc = 4096
    /\ chip.a = 0 /\ chip.x = 0 /\ chip.y = 0 /\ chip.sp = 0
    /\ ~chip.n /\ ~chip.v /\ ~chip.d /\ ~chip.i /\ ~chip.b /\ ~chip.z /\ ~chip.c
    /\ clocks = 0
    /\ tia.color_clocks = 0
    /\ riot.clocks_per_interval = 0 /\ riot.clocks = 0 /\ ~riot.timint

\* C38, as the claim states it: immediately after System::new, before any
\* instruction or input event, PC = 0x1000, A = X = Y = SP = 0, all flags
\* are clear, system.clocks = 0, color_clocks = 0, the timer is idle
\* (prescaler 0, TIMINT false), a read of SWCHA returns 0xFF and a read of
\* INPT4 returns 0x80.
NewSystemReadsSwchaHigh ==
    JustConstructed =>
        /\ NewSystemIsZeroed
        /\ (last.kind = "get" /\ last.addr = SWCHA) => last.value = 255
        /\ (last.kind = "get" /\ last.addr = INPT4) => last.value = 128

\* The first thing done with a new system was a read of SWCHA, and it
\* returned 0x00: the RIOT is Riot::default(), not Riot::new().
NewSystemReadSwchaLow ==
    /\ JustConstructed /\ NewSystemIsZeroed
    /\ last = Op("get", SWCHA, 0, 0, 0)
    /\ riot = RiotDefault

\* What the code does: everything the claim says of the registers, the
\* clocks, the timer and INPT4, and SWCHA reads 0x00.
NewSystemReadsSwchaLow ==
    JustConstructed =>
        /\ NewSystemIsZeroed
        /\ (last.kind = "get" /\ last.addr = SWCHA) => last.value = 0
        /\ (last.kind = "get" /\ last.addr = INPT4) => last.value = 128

\* The first thing done with a new system was a read of INPT4, and it
\* returned 0x80.
NewSystemReadInpt4High ==
    /\ JustConstructed /\ NewSystemIsZeroed
    /\ last = Op("get", INPT4, 128, 0, 0)

----------------------------------------------------------------------------
(* Properties of the WSYNC stall (specification Spec)                       *)

\* The beam where sync() finds it in this iteration: after the tick of the
\* instruction's cycles.
BeamAtSync ==
    (tia.color_clocks + last'.cycles * COLOR_CLOCKS_PER_SYSTEM_CLOCK)
        % COLOR_CLOCKS_PER_FRAME

\* The colour clocks left in the line of the beam at sync().
RestOfLine == COLOR_CLOCKS_PER_LINE - (BeamAtSync % COLOR_CLOCKS_PER_LINE)

\* This iteration executed a store to WSYNC.
WroteWsync == last'.kind = "Sta" /\ last'.addr = WSYNC /\ fatal' = "none"

\* The stall of a WSYNC write is the rest of the line divided exactly by 3,
\* between 1 and 76 cycles, 76 at a line start; the beam, moved to 228 * 3
\* first when VSYNC is on, advances by the rest of the line. Without a WSYNC
\* write there is no stall.
StallIsRestOfLine ==
    steps' = steps + 1 =>
        IF WroteWsync
        THEN /\ last'.extra * COLOR_CLOCKS_PER_SYSTEM_CLOCK = RestOfLine
             /\ last'.extra \in 1..LineCycles
             /\ BeamAtSync % COLOR_CLOCKS_PER_LINE = 0 => last'.extra = LineCycles
             /\ tia'.color_clocks
                  = ((IF tia.vsync THEN 228 * 3 ELSE BeamAtSync) + RestOfLine)
                        % COLOR_CLOCKS_PER_FRAME
        ELSE last'.extra = 0

StalledTheRestOfALine ==
    /\ last.kind = "Sta" /\ last.addr = WSYNC
    /\ last.extra \in 1..(LineCycles - 1)
    /\ tia.color_clocks % COLOR_CLOCKS_PER_LINE = 0
    /\ fatal = "none"

====
